---- MODULE Spec2Model ----
(***************************************************************************)
(* State-machine model of the ZTBF ingest-to-storage data plane:           *)
(*   - HybridQueue / DiskBuffer     (data_pipeline/ingestion/queue.py)     *)
(*   - the ingestion HTTP handlers  (data_pipeline/ingestion/api.py)       *)
(*   - EventProcessor workers       (data_pipeline/processing/processor.py)*)
(*   - LocalStorageLayer            (data_pipeline/storage_layer.py)       *)
(*                                                                         *)
(* All tasks are asyncio coroutines on one event loop, so a step of the    *)
(* model is the code that runs between two points where a coroutine really *)
(* suspends.  DiskBuffer.read/write, check_rate_limit, verify_api_key and  *)
(* HybridQueue.put are "async def" without an inner suspension: awaiting   *)
(* them does not yield to the loop.  HybridQueue.get suspends only inside  *)
(* asyncio.wait_for(memory_queue.get(), timeout).                          *)
(***************************************************************************)
EXTENDS Integers, Sequences, FiniteSets, TLC

(***************************************************************************)
(* Bounds of the model.                                                    *)
(***************************************************************************)
\* put() calls explored beyond the ring capacity (the ring must fill up
\* before anything overflows)
ExtraItems == 2
\* durable-buffer failures explored per behaviour
MaxDiskFailures == 1
\* the two ring capacities explored (QueueConfig.max_memory_size, scaled):
\* below 10 the refill count int(max*0.1) is 0, from 10 on it is positive
SmallRing == 2
LargeRing == 10

MemorySizes == {SmallRing, LargeRing}
Strategies == {"disk", "drop"}
Consumers == {"w1", "w2"}

VARIABLES
    \* ---- HybridQueue ----
    max_memory_size,    \* config.max_memory_size
    overflow_strategy,  \* config.overflow_strategy
    memory_queue,       \* asyncio.Queue contents, head first
    disk_buffer,        \* event_buffer rows in id order: the event_json texts
    qstats,             \* HybridQueue.stats
    gpc,                \* per consumer: where it is inside HybridQueue.get
    closed,             \* HybridQueue.close() has closed the durable buffer
    \* ---- observation of the queue (not program state) ----
    nput,               \* number of put() calls so far
    path,               \* per put: "memory", "disk" or "dropped"
    delivered,          \* the events get() has returned, in order
    disk_failures,      \* number of failed DiskBuffer.write/read calls
    \* ---- ingestion API ----
    event_queue_set,    \* the lifespan has assigned the global event_queue
    metrics,            \* the global metrics dictionary
    rate_limit_store,   \* per API key: the admitted request times in the window
    now,                \* datetime.utcnow(), in seconds
    \* ---- observation of the API (not program state) ----
    nreq,               \* number of requests handled so far
    last,               \* the latest request and its response
    \* ---- EventProcessor and LocalStorageLayer ----
    running,            \* EventProcessor.running
    batch,              \* EventProcessor.batch
    last_flush,         \* EventProcessor.last_flush, in seconds
    pstats,             \* EventProcessor.stats
    wpc,                \* per worker: where it is in _worker
    wevent,             \* per worker: the event it holds
    wretry,             \* per worker: retry_count of _process_event
    files,              \* per partition: the rows of its events.parquet
    \* ---- observation of the processor (not program state) ----
    plast,              \* the latest worker step and what it saw
    \* ---- StorageLayer / LocalStorageLayer as a tiered store ----
    backend,            \* "minio": StorageLayer, "local": LocalStorageLayer
    bucket,             \* per key: the rows of the object and its LastModified
    utcnow,             \* datetime.utcnow(), in hours
    lc,                 \* where lifecycle_management is
    s3_failures,        \* number of failed object-store calls
    \* ---- observation of the store (not program state) ----
    nrows,              \* number of rows handed to write_events so far
    slast,              \* the latest store operation and what it saw
    lrun,               \* the lifecycle run in progress or just finished
    \* ---- the process ----
    component,          \* which of the repository's processes this is
    \* ---- EventEnricher ----
    entity_cache,       \* self.entity_cache: per entity_id the entry or none
    \* ---- observation of the enricher (not program state) ----
    elast,              \* the latest enrich call and what it saw
    erows               \* the rows write_events has persisted

qvars == <<max_memory_size, overflow_strategy, memory_queue, disk_buffer,
           qstats, gpc, closed, nput, path, delivered, disk_failures>>

avars == <<event_queue_set, metrics, rate_limit_store, now, nreq, last>>

pvars == <<running, batch, last_flush, pstats, wpc, wevent, wretry, files, plast>>

evars == <<entity_cache, elast, erows>>

svars == <<backend, bucket, utcnow, lc, s3_failures, nrows, slast, lrun, component,
           evars>>

vars == <<qvars, avars, pvars, svars>>

(***************************************************************************)
(* Events.  ingestion_id is the stamp the producer gives the event (the     *)
(* handlers derive it from the clock; the producers of the queue           *)
(* specification number their events), idx its position in a batch request *)
(* (0 for a single-record request).  valid says whether the record matches *)
(* the shape of its source.                                                *)
(***************************************************************************)
Sources == {"azure_ad", "cloudtrail", "api_gateway"}

\* The timestamp text of a raw event: fmt "iso" is a text datetime.fromisoformat
\* or strptime reads, giving the instant hours (whole hours since the
\* epoch of the model); "text" is a text neither reads; "absent" is a
\* missing field.
IsoTs(h) == [fmt |-> "iso", hours |-> h]
TextTs == [fmt |-> "text", hours |-> 0]
AbsentTs == [fmt |-> "absent", hours |-> 0]

\* a datetime, and the missing value (None, NaT in a DataFrame)
At(h) == [at |-> TRUE, hours |-> h]
NaT == [at |-> FALSE, hours |-> 0]

MkEvent(r, i, s, v) ==
    [ingestion_id |-> r, idx |-> i, source_type |-> s, valid |-> v, ts |-> IsoTs(0)]

\* Python's None as returned by DiskBuffer.read / HybridQueue.get
None == [ingestion_id |-> 0, idx |-> 0, source_type |-> "none", valid |-> FALSE,
         ts |-> AbsentTs]

\* json.dumps(event): the row text stored in event_buffer.event_json
JsonDumps(e) == <<"json", e.ingestion_id, e.idx, e.source_type, e.valid, e.ts>>

\* json.loads(event_json)
JsonLoads(s) ==
    [ingestion_id |-> s[2], idx |-> s[3], source_type |-> s[4], valid |-> s[5],
     ts |-> s[6]]

\* APIConfig.API_KEYS
API_KEYS == {"test_key", "dev_key"}

\* the metrics dictionary at import time (api_started_at left out)
ZeroMetrics == [events_ingested_total |-> 0, events_dropped_total |-> 0,
                events_by_source |-> [s \in Sources |-> 0], errors_total |-> 0]

\* a response without the "accepted" content
NoBody == [status |-> "none", ingestion_id |-> 0, source_type |-> "none"]

\* no request has been handled yet
NoRequest == [endpoint |-> "none", key |-> "none", source |-> "none",
              status |-> 0, valid |-> FALSE, exhausted |-> FALSE,
              total |-> 0, invalid |-> 0, accepted |-> 0, rejected |-> 0,
              put_ok |-> 0, put_dropped |-> 0, queued |-> 0, copies |-> 0,
              body |-> NoBody, stamp |-> 0,
              d_ingested |-> 0, d_dropped |-> 0, d_errors |-> 0, d_source |-> 0]

ZeroStats == [enqueued |-> 0, dequeued |-> 0, overflowed |-> 0, dropped |-> 0,
              disk_reads |-> 0, disk_writes |-> 0, errors |-> 0]

\* the mutable part of a HybridQueue as one value
Q == [mem |-> memory_queue, disk |-> disk_buffer, stats |-> qstats]

\* a counter update that counts down
Unbump(st, k) == [st EXCEPT ![k] = st[k] - 1]

\* self.stats[k] += 1
Bump(st, k) == [st EXCEPT ![k] = st[k] + 1]

(***************************************************************************)
(* DiskBuffer                                                              *)
(***************************************************************************)
\* a write that reports the failure and leaves the row in the table
DiskWriteKeepsRow(disk, e, ok) ==
    [disk |-> Append(disk, JsonDumps(e)), ok |-> ok]

\* DiskBuffer.write: INSERT + commit, True; on any exception False
DiskWrite(disk, e, ok) ==
    IF ok THEN [disk |-> Append(disk, JsonDumps(e)), ok |-> TRUE]
          ELSE [disk |-> disk, ok |-> FALSE]

\* a read that returns the oldest row and forgets to delete it
DiskReadNoDelete(disk, ok) ==
    IF ok /\ disk # <<>>
    THEN [disk |-> disk, event |-> JsonLoads(Head(disk))]
    ELSE [disk |-> disk, event |-> None]

\* DiskBuffer.read: the row with the smallest id is returned and deleted;
\* None when the table is empty or on any exception
DiskRead(disk, ok) ==
    IF ok /\ disk # <<>>
    THEN [disk |-> Tail(disk), event |-> JsonLoads(Head(disk))]
    ELSE [disk |-> disk, event |-> None]

\* DiskBuffer.get_size
DiskSize(disk) == Len(disk)

(***************************************************************************)
(* HybridQueue.put / _handle_overflow                                      *)
(***************************************************************************)
\* asyncio.Queue.full()
MemoryFull(mem) == Len(mem) >= max_memory_size

\* an overflow that loses the event and still reports success
HandleOverflowUnreported(q, e, wok) ==
    [q |-> [q EXCEPT !.stats = Bump(q.stats, "dropped")],
     ok |-> TRUE, path |-> "dropped"]

\* HybridQueue._handle_overflow
HandleOverflow(q, e, wok) ==
    IF overflow_strategy = "disk"
    THEN LET w == DiskWrite(q.disk, e, wok) IN
         IF w.ok
         THEN [q |-> [q EXCEPT !.disk = w.disk,
                               !.stats = Bump(Bump(q.stats, "overflowed"), "disk_writes")],
               ok |-> TRUE, path |-> "disk"]
         ELSE [q |-> [q EXCEPT !.disk = w.disk,
                               !.stats = Bump(q.stats, "dropped")],
               ok |-> FALSE, path |-> "dropped"]
    ELSE [q |-> [q EXCEPT !.stats = Bump(q.stats, "dropped")],
          ok |-> FALSE, path |-> "dropped"]

\* a put that counts an overflowed event as enqueued as well
QueuePutCountsOverflow(q, e, wok) ==
    IF ~MemoryFull(q.mem)
    THEN [q |-> [q EXCEPT !.mem = Append(q.mem, e),
                          !.stats = Bump(q.stats, "enqueued")],
          ok |-> TRUE, path |-> "memory"]
    ELSE LET h == HandleOverflow(q, e, wok) IN
         [h EXCEPT !.q = [h.q EXCEPT !.stats = Bump(h.q.stats, "enqueued")]]

\* HybridQueue.put
QueuePut(q, e, wok) ==
    IF ~MemoryFull(q.mem)
    THEN [q |-> [q EXCEPT !.mem = Append(q.mem, e),
                          !.stats = Bump(q.stats, "enqueued")],
          ok |-> TRUE, path |-> "memory"]
    ELSE HandleOverflow(q, e, wok)

(***************************************************************************)
(* HybridQueue._refill_from_disk                                           *)
(***************************************************************************)
\* the second argument of min(): int(max_memory_size * 0.1)
RefillChunk == max_memory_size \div 10

Min(a, b) == IF a <= b THEN a ELSE b

\* qsize() < max_memory_size * 0.5
RefillWanted(mem) == 2 * Len(mem) < max_memory_size

\* the body of "for _ in range(refill_count)", k iterations left
RECURSIVE RefillLoop(_, _, _)
RefillLoop(q, k, ok) ==
    IF k = 0 THEN q
    ELSE LET r == DiskRead(q.disk, ok) IN
         IF r.event = None THEN RefillLoop(q, k - 1, ok)
         ELSE IF ~MemoryFull(q.mem)
              THEN RefillLoop([q EXCEPT !.mem = Append(q.mem, r.event),
                                        !.disk = r.disk,
                                        !.stats = Bump(q.stats, "disk_reads")],
                              k - 1, ok)
              \* QueueFull: the event is put back at the tail of the table
              ELSE [q EXCEPT !.disk = DiskWrite(r.disk, r.event, ok).disk]

RefillFromDisk(q, ok) ==
    IF RefillWanted(q.mem) /\ DiskSize(q.disk) > 0
    THEN RefillLoop(q, Min(DiskSize(q.disk), RefillChunk), ok)
    ELSE q

\* whether _refill_from_disk touches the durable buffer at all
RefillReads(q) ==
    RefillWanted(q.mem) /\ DiskSize(q.disk) > 0 /\ RefillChunk > 0

(***************************************************************************)
(* HybridQueue.get                                                         *)
(***************************************************************************)
\* a ring that hands out its newest item first
MemoryGetNowaitLifo(mem) ==
    [event |-> mem[Len(mem)], mem |-> SubSeq(mem, 1, Len(mem) - 1)]

\* asyncio.Queue.get_nowait(): the ring is FIFO
MemoryGetNowait(mem) == [event |-> Head(mem), mem |-> Tail(mem)]

\* wait_for returned an item: count it, refill, return it
QueueGetMemory(q, rok) ==
    LET got == MemoryGetNowait(q.mem)
        popped == [q EXCEPT !.mem = got.mem,
                            !.stats = Bump(q.stats, "dequeued")]
    IN [q |-> RefillFromDisk(popped, rok), event |-> got.event]

\* except asyncio.TimeoutError: read the durable buffer
QueueGetDisk(q, rok) ==
    LET r == DiskRead(q.disk, rok) IN
    IF r.event # None
    THEN [q |-> [q EXCEPT !.disk = r.disk,
                          !.stats = Bump(Bump(q.stats, "dequeued"), "disk_reads")],
          event |-> r.event]
    ELSE [q |-> q, event |-> None]

\* HybridQueue.qsize
QSize(q) == Len(q.mem) + DiskSize(q.disk)

(***************************************************************************)
(* Queue specification: producers call put, consumers call get.            *)
(***************************************************************************)
SetQ(q) ==
    /\ memory_queue' = q.mem
    /\ disk_buffer' = q.disk
    /\ qstats' = q.stats

\* EventProcessor.stats at construction (started_at left out)
ZeroPStats == [processed |-> 0, normalized |-> 0, enriched |-> 0, stored |-> 0,
               errors |-> 0, retries |-> 0]

\* the instants the timestamps of the model's events take, in whole hours:
\* two hours of one day and the second hour of the next
TsHours == {0, 1, 25}

\* timestamp.dt.date and timestamp.dt.hour
DateOf(t) == t.hours \div 24
HourOf(t) == t.hours % 24

\* the partition (date, hour, source_system) of a unified event
PartitionOf(ev) == <<DateOf(ev.timestamp), HourOf(ev.timestamp), ev.source_system>>

\* the partitions the events of the model can fall into
Partitions == {<<DateOf(At(h)), HourOf(At(h)), src>> : h \in TsHours, src \in Sources}

\* no worker step has been taken yet.  batch_before and last_flush_before
\* are the batch and last_flush when the step reached its flush decision,
\* age the whole seconds since last_flush then; flush is what the step did
\* about the batch ("none", "ok" or "failed"); failures counts the failed
\* write_events calls; failed_batch is the batch of the latest failed flush
\* that no successful flush has followed yet and recovered the failed batch
\* a successful flush has just written; appended collects every event that
\* was ever appended to the batch.
NoStep == [op |-> "none", age |-> 0, elapsed |-> 0,
           flush |-> "none", batch_before |-> <<>>, last_flush_before |-> 0,
           d_errors |-> 0, failures |-> 0, failed_batch |-> <<>>,
           recovered |-> <<>>, appended |-> {},
           new |-> {}, rejected |-> {}, rejecters |-> {}, again |-> FALSE,
           batchers |-> {}, shared |-> FALSE, tracking |-> FALSE]

\* the storage tiers, in the order LocalStorageLayer.read_events scans them
TierNames == <<"hot", "warm", "cold">>
TierSet == {"hot", "warm", "cold"}

\* tier=None and source_system=None
NoTier == "none"
NoSource == "none"

\* format(hour, "02d"): the two digits of an hour of the day, as a text
Digits == <<"0", "1", "2", "3", "4", "5", "6", "7", "8", "9">>
Pad2(h) == <<Digits[(h \div 10) + 1], Digits[(h % 10) + 1]>>

\* a key that leaves the hour of the partition out
StoreKeyNoHour(tier, p) == <<tier, p[1], Pad2(0), p[3]>>

\* the key "<tier>/date=<date>/hour=<HH>/source=<source>/events.parquet" of
\* partition p, as the sequence of its variable parts
StoreKey(tier, p) == <<tier, p[1], Pad2(p[2]), p[3]>>
StoreKeys == {StoreKey(t, p) : t \in TierSet, p \in Partitions}
PartitionOfKey(k) == CHOOSE p \in Partitions : StoreKey(k[1], p) = k

\* a key without an object, and the bucket (or file tree) without objects
NoObject == [rows |-> <<>>, last_modified |-> 0]
EmptyBucket == [k \in StoreKeys |-> NoObject]
Exists(b, k) == b[k].rows # <<>>

\* lifecycle_management is not running
LcIdle == [phase |-> "idle", now |-> 0, todo |-> <<>>, copied |-> FALSE]

\* what is observed of a store operation
NoStoreOp ==
    [op |-> "none", ok |-> TRUE, before |-> EmptyBucket, events |-> <<>>,
     key |-> <<>>, start |-> 0, end |-> 0, source |-> NoSource, tier |-> NoTier,
     at |-> 0, tiers |-> <<>>, rows |-> <<>>]

\* what is observed of a lifecycle run
NoRun ==
    [state |-> "none", at |-> 0, before |-> EmptyBucket, failed |-> FALSE,
     clean |-> TRUE, rerun |-> FALSE, pending |-> {}]

\* no storage layer has been constructed
(***************************************************************************)
(* EventEnricher: the values of a unified event's enrichable fields         *)
(***************************************************************************)
\* a field that is None or missing
Absent == [kind |-> "none", net |-> 0, host |-> 0]

\* a dotted IPv4 address a.b.c.d: net stands for a.b.c, host for d
V4(net, host) == [kind |-> "v4", net |-> net, host |-> host]

\* an address that is not dotted IPv4 ("2001:db8::1")
V6 == [kind |-> "v6", net |-> 0, host |-> 0]

\* a.b.c.XXX
Masked(net) == [kind |-> "masked", net |-> net, host |-> 0]

\* a value the event already carried when it reached the enricher
Given == [kind |-> "given", net |-> 0, host |-> 0]

EntityIds == {"user@corp"}

\* the cache entry of an entity that was never looked up
NoEntry == [cached |-> FALSE, metadata |-> Absent, cached_at |-> 0]

\* the aspects of enrichment, in the order enrich applies them
Aspects == <<"geo", "entity", "device", "sensitivity", "anonymize">>

\* the unified event before it is normalized: no enrichable field is set
NoEvent == [source_ip |-> Absent, location |-> Absent, entity_id |-> "none",
            entity_metadata |-> Absent, user_agent |-> Absent, device |-> Absent,
            sensitivity |-> Absent, source_ip_anonymized |-> Absent]

\* no enrich call has been made yet
NoEnrich == [op |-> "none", input |-> NoEvent, out |-> NoEvent, first |-> NoEvent,
             failing |-> {}, tried |-> {}, raised |-> "none", at |-> 0,
             had_entry |-> FALSE, age |-> 0, fetched |-> FALSE,
             stamped |-> FALSE]

\* EventEnricher.__init__: an empty cache
EnrichIdle ==
    /\ entity_cache = [i \in EntityIds |-> NoEntry]
    /\ elast = NoEnrich
    /\ erows = <<>>

StoreIdle ==
    /\ EnrichIdle
    /\ backend = "local"
    /\ bucket = EmptyBucket
    /\ utcnow = 0
    /\ lc = LcIdle
    /\ s3_failures = 0
    /\ nrows = 0
    /\ slast = NoStoreOp
    /\ lrun = NoRun

\* no processor has been constructed
ProcIdle ==
    /\ running = FALSE
    /\ batch = <<>>
    /\ last_flush = 0
    /\ pstats = ZeroPStats
    /\ wpc = [c \in Consumers |-> "stopped"]
    /\ wevent = [c \in Consumers |-> None]
    /\ wretry = [c \in Consumers |-> 0]
    /\ files = [p \in Partitions |-> <<>>]
    /\ plast = NoStep

\* no API process is serving
ApiIdle ==
    /\ event_queue_set = FALSE
    /\ metrics = ZeroMetrics
    /\ rate_limit_store = [k \in API_KEYS |-> <<>>]
    /\ now = 0
    /\ nreq = 0
    /\ last = NoRequest

QueueInit ==
    /\ component = "queue"
    /\ ApiIdle
    /\ ProcIdle
    /\ StoreIdle
    /\ max_memory_size \in MemorySizes
    /\ overflow_strategy \in Strategies
    /\ closed = FALSE
    /\ memory_queue = <<>>
    /\ disk_buffer = <<>>
    /\ qstats = ZeroStats
    /\ gpc = [c \in Consumers |-> "idle"]
    /\ nput = 0
    /\ path = <<>>
    /\ delivered = <<>>
    /\ disk_failures = 0

\* the outcomes a durable-buffer operation can have; only explored when the
\* operation is really performed
Outcomes(performed) ==
    IF performed /\ disk_failures < MaxDiskFailures THEN BOOLEAN ELSE {TRUE}

\* await queue.put(event)
Put ==
    /\ nput < max_memory_size + ExtraItems
    /\ \E wok \in Outcomes(MemoryFull(memory_queue) /\ overflow_strategy = "disk") :
         LET r == QueuePut(Q, MkEvent(nput + 1, 0, "azure_ad", TRUE), wok) IN
         /\ SetQ(r.q)
         /\ nput' = nput + 1
         /\ path' = Append(path, r.path)
         /\ disk_failures' = disk_failures + (IF wok THEN 0 ELSE 1)
    /\ UNCHANGED <<max_memory_size, overflow_strategy, closed, gpc, delivered>>
    /\ UNCHANGED <<svars, avars, pvars>>

\* get(): memory_queue.get() has an item, at once or after waiting
GetMemory(c) ==
    /\ gpc[c] \in {"idle", "waiting"}
    /\ memory_queue # <<>>
    /\ \E rok \in Outcomes(RefillReads([Q EXCEPT !.mem = MemoryGetNowait(memory_queue).mem])) :
         LET r == QueueGetMemory(Q, rok) IN
         /\ SetQ(r.q)
         /\ delivered' = Append(delivered, r.event)
         /\ disk_failures' = disk_failures + (IF rok THEN 0 ELSE 1)
    /\ gpc' = [gpc EXCEPT ![c] = "idle"]
    /\ UNCHANGED <<max_memory_size, overflow_strategy, closed, nput, path>>
    /\ UNCHANGED <<svars, avars, pvars>>

\* get(): the ring is empty, the consumer suspends in wait_for
GetWait(c) ==
    /\ gpc[c] = "idle"
    /\ memory_queue = <<>>
    /\ gpc' = [gpc EXCEPT ![c] = "waiting"]
    /\ UNCHANGED <<max_memory_size, overflow_strategy, closed, memory_queue, disk_buffer,
                   qstats, nput, path, delivered, disk_failures>>
    /\ UNCHANGED <<svars, avars, pvars>>

\* the timeout of wait_for fires: the consumer is cancelled out of
\* memory_queue.get() and scheduled; it runs when the loop reaches it
GetTimeout(c) ==
    /\ gpc[c] = "waiting"
    /\ gpc' = [gpc EXCEPT ![c] = "timedout"]
    /\ UNCHANGED <<max_memory_size, overflow_strategy, closed, memory_queue, disk_buffer,
                   qstats, nput, path, delivered, disk_failures>>
    /\ UNCHANGED <<svars, avars, pvars>>

\* the consumer resumes in "except asyncio.TimeoutError"
GetDisk(c) ==
    /\ gpc[c] = "timedout"
    /\ \E rok \in Outcomes(disk_buffer # <<>>) :
         LET r == QueueGetDisk(Q, rok) IN
         /\ SetQ(r.q)
         /\ delivered' = IF r.event # None THEN Append(delivered, r.event)
                                           ELSE delivered
         /\ disk_failures' = disk_failures + (IF rok THEN 0 ELSE 1)
    /\ gpc' = [gpc EXCEPT ![c] = "idle"]
    /\ UNCHANGED <<max_memory_size, overflow_strategy, closed, nput, path>>
    /\ UNCHANGED <<svars, avars, pvars>>

QueueNext ==
    \/ Put
    \/ \E c \in Consumers : GetMemory(c)
    \/ \E c \in Consumers : GetWait(c)
    \/ \E c \in Consumers : GetTimeout(c)
    \/ \E c \in Consumers : GetDisk(c)

SpecQueue == QueueInit /\ [][QueueNext]_vars

\* a row an earlier run of the process left in the table of the durable buffer
LeftoverRows == <<JsonDumps(MkEvent(0, 0, "azure_ad", TRUE))>>

\* HybridQueue.__init__ over the file of an earlier run: DiskBuffer._init_db
\* creates the table only if it does not exist and deletes nothing, the
\* counters start at zero
ReopenInit ==
    /\ component = "queue"
    /\ ApiIdle
    /\ ProcIdle
    /\ StoreIdle
    /\ max_memory_size \in MemorySizes
    /\ overflow_strategy \in Strategies
    /\ closed = FALSE
    /\ memory_queue = <<>>
    /\ disk_buffer = LeftoverRows
    /\ qstats = ZeroStats
    /\ gpc = [c \in Consumers |-> "idle"]
    /\ nput = 0
    /\ path = <<>>
    /\ delivered = <<>>
    /\ disk_failures = 0

\* a queue opened over the durable buffer of an earlier run
SpecReopen == ReopenInit /\ [][QueueNext]_vars

(***************************************************************************)
(* Ingestion API (api.py).  A handler runs without suspending, so one      *)
(* request is one step.                                                    *)
(***************************************************************************)
\* APIConfig.RATE_LIMIT_PER_MINUTE (10000 in the source, scaled)
RATE_LIMIT_PER_MINUTE == 1
\* APIConfig.MAX_BATCH_SIZE (1000 in the source, scaled)
MAX_BATCH_SIZE == 2
\* the rate-limit window of check_rate_limit, in seconds
WindowSeconds == 60
\* requests explored per behaviour
MaxRequests == 2
\* the clock advances in steps of TickSeconds up to MaxClock
TickSeconds == 30
MaxClock == 60

\* the X-API-Key headers explored: the two configured keys and a foreign one
RequestKeys == API_KEYS \cup {"bad_key"}

\* the source_type query parameters explored for /ingest/batch
BatchSourceTypes == {"api_gateway", "not_a_source"}

\* request bodies of /ingest/batch: per record whether it matches the shape
RECURSIVE BoolSeqs(_)
BoolSeqs(n) ==
    IF n = 0 THEN {<<>>}
    ELSE LET shorter == BoolSeqs(n - 1) IN
         shorter \cup {Append(b, v) : b \in {x \in shorter : Len(x) = n - 1},
                                      v \in BOOLEAN}

\* the bodies explored: up to MAX_BATCH_SIZE records of which at most one
\* does not match the shape, and one body above MAX_BATCH_SIZE
BatchBodies ==
    {b \in BoolSeqs(MAX_BATCH_SIZE) : Cardinality({i \in DOMAIN b : ~b[i]}) <= 1}
    \cup {[i \in 1..(MAX_BATCH_SIZE + 1) |-> TRUE]}

\* a limiter that never prunes and never refuses
CheckRateLimitOpen(store, api_key, t) ==
    [store |-> [store EXCEPT ![api_key] = Append(store[api_key], t)], ok |-> TRUE]

\* check_rate_limit
CheckRateLimit(store, api_key, t) ==
    LET kept == SelectSeq(store[api_key], LAMBDA ts : t - ts < WindowSeconds) IN
    IF Len(kept) >= RATE_LIMIT_PER_MINUTE
    THEN [store |-> [store EXCEPT ![api_key] = kept], ok |-> FALSE]
    ELSE [store |-> [store EXCEPT ![api_key] = Append(kept, t)], ok |-> TRUE]

\* metrics[k] += 1
MBump(m, k) == [m EXCEPT ![k] = m[k] + 1]
\* metrics["events_by_source"][s] += 1
MBumpSource(m, s) ==
    [m EXCEPT !.events_by_source = [m.events_by_source EXCEPT ![s] = @ + 1]]

\* The try block of ingest_azure_ad / ingest_cloudtrail / ingest_api_gateway:
\* what it returns or raises.  HTTPException (503) is raised inside the try.
IngestTry(q, m, source, e, wok) ==
    IF ~e.valid
    THEN [q |-> q, m |-> m, raised |-> "ValidationError", status |-> 0,
          put |-> "none", body |-> NoBody]
    ELSE IF ~event_queue_set
    \* event_queue is still None: event_queue.put raises
    THEN [q |-> q, m |-> m, raised |-> "AttributeError", status |-> 0,
          put |-> "none", body |-> NoBody]
    ELSE LET r == QueuePut(q, e, wok) IN
         IF r.ok
         THEN [q |-> r.q,
               m |-> MBumpSource(MBump(m, "events_ingested_total"), source),
               raised |-> "none", status |-> 202, put |-> "ok",
               body |-> [status |-> "accepted", ingestion_id |-> e.ingestion_id,
                         source_type |-> source]]
         ELSE [q |-> r.q, m |-> MBump(m, "events_dropped_total"),
               raised |-> "HTTPException", status |-> 503, put |-> "dropped",
               body |-> NoBody]

\* except clauses that let an HTTPException raised in the try pass through
IngestExceptPassHttp(t) ==
    IF t.raised = "none" THEN t
    ELSE IF t.raised = "ValidationError"
    THEN [t EXCEPT !.m = MBump(t.m, "errors_total"), !.status = 422]
    ELSE IF t.raised = "HTTPException" THEN t
    ELSE [t EXCEPT !.m = MBump(t.m, "errors_total"), !.status = 500]

\* The except clauses: "except ValidationError" answers 422, "except
\* Exception" catches everything else, the HTTPException included, and
\* answers 500; both count an error.
IngestExcept(t) ==
    IF t.raised = "none" THEN t
    ELSE IF t.raised = "ValidationError"
    THEN [t EXCEPT !.m = MBump(t.m, "errors_total"), !.status = 422]
    ELSE [t EXCEPT !.m = MBump(t.m, "errors_total"), !.status = 500]

\* a single-record handler from verify_api_key to its response
IngestHandler(source, api_key, e, wok) ==
    LET same == [q |-> Q, m |-> metrics, store |-> rate_limit_store,
                 put |-> "none", body |-> NoBody] IN
    IF api_key \notin API_KEYS
    THEN same @@ [status |-> 401]
    ELSE LET rl == CheckRateLimit(rate_limit_store, api_key, now) IN
         IF ~rl.ok
         THEN [same EXCEPT !.store = rl.store] @@ [status |-> 429]
         ELSE LET t == IngestExcept(IngestTry(Q, metrics, source, e, wok)) IN
              [q |-> t.q, m |-> t.m, store |-> rl.store, put |-> t.put,
               body |-> t.body, status |-> t.status]

\* the key has RATE_LIMIT_PER_MINUTE admitted requests in the last window
Exhausted(api_key) ==
    /\ api_key \in API_KEYS
    /\ Cardinality({i \in DOMAIN rate_limit_store[api_key] :
                      now - rate_limit_store[api_key][i] < WindowSeconds})
         >= RATE_LIMIT_PER_MINUTE

\* how many copies of e the queue q holds
QCount(q, e) ==
    Cardinality({i \in DOMAIN q.mem : q.mem[i] = e})
    + Cardinality({i \in DOMAIN q.disk : JsonLoads(q.disk[i]) = e})

\* the state after a request, and what is observed of it
Respond(endpoint, api_key, source, h, obs) ==
    /\ SetQ(h.q)
    /\ metrics' = h.m
    /\ rate_limit_store' = h.store
    /\ nreq' = nreq + 1
    /\ last' = [obs EXCEPT
                  !.endpoint = endpoint, !.key = api_key, !.source = source,
                  !.status = h.status, !.stamp = now,
                  !.exhausted = Exhausted(api_key),
                  !.queued = QSize(h.q) - QSize(Q),
                  !.d_ingested = h.m.events_ingested_total - metrics.events_ingested_total,
                  !.d_dropped = h.m.events_dropped_total - metrics.events_dropped_total,
                  !.d_errors = h.m.errors_total - metrics.errors_total,
                  !.d_source = IF source \in Sources
                               THEN h.m.events_by_source[source]
                                    - metrics.events_by_source[source]
                               ELSE 0]

\* the durable-buffer write of a put is explored with both outcomes only
\* when the put reaches it
WriteOutcomes(q) ==
    Outcomes(event_queue_set /\ MemoryFull(q.mem) /\ overflow_strategy = "disk")

Ingest(source) ==
    /\ nreq < MaxRequests
    /\ \E api_key \in RequestKeys, valid \in BOOLEAN, wok \in WriteOutcomes(Q) :
         LET e == MkEvent(now, 0, source, valid)
             h == IngestHandler(source, api_key, e, wok)
         IN /\ Respond(source, api_key, source, h,
                       [NoRequest EXCEPT
                          !.valid = valid, !.total = 1, !.body = h.body,
                          !.copies = QCount(h.q, e) - QCount(Q, e),
                          !.invalid = IF valid THEN 0 ELSE 1,
                          !.put_ok = IF h.put = "ok" THEN 1 ELSE 0,
                          !.put_dropped = IF h.put = "dropped" THEN 1 ELSE 0])
            /\ disk_failures' = disk_failures + (IF wok THEN 0 ELSE 1)
    /\ UNCHANGED <<max_memory_size, overflow_strategy, closed, gpc, nput, path, delivered>>
    /\ UNCHANGED <<svars, event_queue_set, now, pvars>>

\* POST /ingest/azure_ad
ingest_azure_ad == Ingest("azure_ad")
\* POST /ingest/cloudtrail
ingest_cloudtrail == Ingest("cloudtrail")
\* POST /ingest/api_gateway
ingest_api_gateway == Ingest("api_gateway")

\* a loop body that forgets to count a record the queue dropped
BatchStepDropUncounted(st, e, source_type, wok) ==
    IF ~event_queue_set
    THEN [st EXCEPT !.rejected = @ + 1, !.m = MBump(st.m, "errors_total")]
    ELSE LET p == QueuePut(st.q, e, wok) IN
         IF p.ok
         THEN [st EXCEPT !.q = p.q, !.accepted = @ + 1, !.put_ok = @ + 1,
                         !.m = MBumpSource(MBump(st.m, "events_ingested_total"),
                                           source_type)]
         ELSE [st EXCEPT !.q = p.q, !.put_dropped = @ + 1]

\* The body of the loop of ingest_batch for one record.  st carries the
\* queue, the metrics and the results.  No shape is validated here.
BatchStep(st, e, source_type, wok) ==
    IF ~event_queue_set
    \* event_queue.put on None raises: except Exception
    THEN [st EXCEPT !.rejected = @ + 1, !.m = MBump(st.m, "errors_total")]
    ELSE LET p == QueuePut(st.q, e, wok) IN
         IF p.ok
         THEN [st EXCEPT !.q = p.q, !.accepted = @ + 1, !.put_ok = @ + 1,
                         !.m = MBumpSource(MBump(st.m, "events_ingested_total"),
                                           source_type)]
         ELSE [st EXCEPT !.q = p.q, !.rejected = @ + 1, !.put_dropped = @ + 1]

\* "for idx, event in enumerate(events)" from record i on; fails are the
\* records whose durable-buffer write fails
RECURSIVE BatchLoop(_, _, _, _, _, _)
BatchLoop(st, body, i, source_type, stamp, fails) ==
    IF i > Len(body) THEN st
    ELSE BatchLoop(BatchStep(st, MkEvent(stamp, i, source_type, body[i]),
                             source_type, i \notin fails),
                   body, i + 1, source_type, stamp, fails)

\* ingest_batch from verify_api_key to its response
BatchHandler(api_key, source_type, body, stamp, fails) ==
    LET start == [q |-> Q, m |-> metrics, store |-> rate_limit_store,
                  accepted |-> 0, rejected |-> 0, put_ok |-> 0, put_dropped |-> 0]
    IN
    IF api_key \notin API_KEYS THEN start @@ [status |-> 401]
    ELSE IF Len(body) > MAX_BATCH_SIZE THEN start @@ [status |-> 413]
    ELSE IF source_type \notin {"azure_ad", "cloudtrail", "api_gateway"}
    THEN start @@ [status |-> 400]
    ELSE BatchLoop(start, body, 1, source_type, stamp, fails) @@ [status |-> 207]

\* the sets of records whose durable-buffer write may fail in one request
FailSets(body) ==
    IF event_queue_set /\ overflow_strategy = "disk"
    THEN {f \in SUBSET (DOMAIN body) :
            Cardinality(f) <= MaxDiskFailures - disk_failures}
    ELSE {{}}

\* the disk writes among fails that the loop really performed and saw fail
FailedWrites(h, fails) ==
    IF h.status = 207 /\ overflow_strategy = "disk" /\ event_queue_set
    THEN h.put_dropped ELSE 0

\* POST /ingest/batch
ingest_batch ==
    /\ nreq < MaxRequests
    /\ \E api_key \in RequestKeys, source_type \in BatchSourceTypes,
          body \in BatchBodies :
         \E fails \in FailSets(body) :
           LET h == BatchHandler(api_key, source_type, body, now, fails) IN
           \* a failure that no put reaches is not a different request
           /\ FailedWrites(h, fails) = Cardinality(fails)
           /\ Respond("batch", api_key, source_type, h,
                      [NoRequest EXCEPT
                         !.total = Len(body),
                         !.invalid = Cardinality({i \in DOMAIN body : ~body[i]}),
                         !.accepted = h.accepted, !.rejected = h.rejected,
                         !.put_ok = h.put_ok, !.put_dropped = h.put_dropped])
           /\ disk_failures' = disk_failures + Cardinality(fails)
    /\ UNCHANGED <<max_memory_size, overflow_strategy, closed, gpc, nput, path, delivered>>
    /\ UNCHANGED <<svars, event_queue_set, now, pvars>>

\* time passes between requests
Tick ==
    /\ now + TickSeconds <= MaxClock
    /\ now' = now + TickSeconds
    /\ UNCHANGED <<svars, qvars, event_queue_set, metrics, rate_limit_store, nreq, last, pvars>>

ApiInit ==
    /\ component = "api"
    /\ StoreIdle
    /\ max_memory_size = SmallRing
    /\ overflow_strategy \in Strategies
    /\ closed = FALSE
    /\ memory_queue = <<>>
    /\ disk_buffer = <<>>
    /\ qstats = ZeroStats
    /\ gpc = [c \in Consumers |-> "idle"]
    /\ nput = 0
    /\ path = <<>>
    /\ delivered = <<>>
    /\ disk_failures = 0
    /\ event_queue_set \in BOOLEAN
    /\ metrics = ZeroMetrics
    /\ rate_limit_store = [k \in API_KEYS |-> <<>>]
    /\ now = 0
    /\ nreq = 0
    /\ last = NoRequest
    /\ ProcIdle

ApiNext ==
    \/ ingest_azure_ad
    \/ ingest_cloudtrail
    \/ ingest_api_gateway
    \/ ingest_batch
    \/ Tick

SpecApi == ApiInit /\ [][ApiNext]_vars

(***************************************************************************)
(* EventProcessor (processor.py) over LocalStorageLayer.  normalize and    *)
(* enrich do not suspend, so a worker runs from one suspension in          *)
(* HybridQueue.get or in the retry backoff to the next without yielding.   *)
(***************************************************************************)
\* ProcessorConfig.batch_size (100 in the source, scaled)
batch_size == 2
\* ProcessorConfig.batch_timeout_seconds (5 in the source, scaled)
batch_timeout_seconds == 2
\* ProcessorConfig.max_retries (3 in the source, scaled)
max_retries == 1
\* events put into the processor's queue per behaviour
MaxEvents == 2
\* QueueConfig.max_memory_size of the processor's queue (scaled)
ProcRing == 1
\* failed write_events calls explored per behaviour
MaxStorageFailures == 1
\* the clock of the processor runs from 0 to MaxProcClock, in seconds
MaxProcClock == 3

\* the sources of the events the processor is fed
ProcSources == {"azure_ad", "cloudtrail"}

\* the events the processor is fed: per source one that matches its shape
\* and carries a readable timestamp, one that makes its mapper raise, and
\* one whose timestamp text cannot be read
ProcKinds ==
    {[source_type |-> "azure_ad", valid |-> TRUE, ts |-> IsoTs(0)],
     [source_type |-> "cloudtrail", valid |-> TRUE, ts |-> IsoTs(1)],
     [source_type |-> "azure_ad", valid |-> FALSE, ts |-> IsoTs(0)],
     [source_type |-> "cloudtrail", valid |-> TRUE, ts |-> TextTs]}

\* the sorted order of the source_system values
PartitionOrder == <<"api_gateway", "azure_ad", "cloudtrail">>
SourceRank(src) == CHOOSE k \in DOMAIN PartitionOrder : PartitionOrder[k] = src

\* the sorted order of the group keys (date, hour, source_system)
KeyLeq(a, b) ==
    \/ a[1] < b[1]
    \/ a[1] = b[1] /\ a[2] < b[2]
    \/ a[1] = b[1] /\ a[2] = b[2] /\ SourceRank(a[3]) <= SourceRank(b[3])

RECURSIVE SortKeys(_)
SortKeys(K) ==
    IF K = {} THEN <<>>
    ELSE LET m == CHOOSE k \in K : \A j \in K : KeyLeq(k, j)
         IN <<m>> \o SortKeys(K \ {m})

\* the processor's mutable fields and the storage files as one value
P == [batch |-> batch, last_flush |-> last_flush, pstats |-> pstats, files |-> files]

SetP(p) ==
    /\ batch' = p.batch
    /\ last_flush' = p.last_flush
    /\ pstats' = p.pstats
    /\ files' = p.files

\* EventNormalizer.normalize: the unified-schema record of a raw event; it
\* raises NormalizationError when a mapper fails on the record, which the
\* model lets happen for the records that do not match their shape
NormalizeRaises(e) == ~e.valid

\* EventNormalizer._parse_timestamp: None for a missing text and for a text
\* no format reads (the exception is logged)
ParseTimestamp(t) == IF t.fmt = "iso" THEN At(t.hours) ELSE NaT

Normalize(e) ==
    [raw_event_id |-> e.ingestion_id, idx |-> e.idx,
     timestamp |-> ParseTimestamp(e.ts),
     source_system |-> e.source_type, enriched |-> FALSE]

\* EventEnricher.enrich
Enrich(n) == [n EXCEPT !.enriched = TRUE]

\* the rows groupby puts into a group: a row whose hour is NaN is in none
Grouped(events) == SelectSeq(events, LAMBDA ev : ev.timestamp.at)

\* the hour column holds a NaN and is a float column: formatting a group's
\* hour with "02d" raises ValueError
HourIsFloat(events) == Grouped(events) # events

\* the partition keys present in events, in groupby order
PartitionKeys(events) ==
    SortKeys({PartitionOf(Grouped(events)[i]) : i \in DOMAIN Grouped(events)})

\* the rows of events that belong to partition k
GroupOf(events, k) == SelectSeq(Grouped(events), LAMBDA ev : PartitionOf(ev) = k)

\* a write that appends every group to its file twice
WriteEventsTwice(f, events, failAt) ==
    LET keys == PartitionKeys(events)
        at == IF HourIsFloat(events) /\ keys # <<>> THEN 1 ELSE failAt
        written(p) == \E k \in DOMAIN keys :
                         keys[k] = p /\ (at = 0 \/ k < at)
    IN [files |-> [p \in Partitions |->
                     IF written(p)
                     THEN f[p] \o GroupOf(events, p) \o GroupOf(events, p)
                     ELSE f[p]],
        ok |-> at = 0]

\* LocalStorageLayer.write_events: the groups are appended to their
\* events.parquet one after the other.  failAt = 0: every group is written;
\* failAt = k: an exception leaves the method at the k-th group, the groups
\* before it are on disk.  With a float hour column the first group raises.
WriteEvents(f, events, failAt) ==
    LET keys == PartitionKeys(events)
        at == IF HourIsFloat(events) /\ keys # <<>> THEN 1 ELSE failAt
        written(p) == \E k \in DOMAIN keys :
                         keys[k] = p /\ (at = 0 \/ k < at)
    IN [files |-> [p \in Partitions |->
                     IF written(p) THEN f[p] \o GroupOf(events, p) ELSE f[p]],
        ok |-> at = 0]

\* a flush that counts the batch as stored before the write has returned
FlushBatchCountsFirst(p, t, failAt) ==
    IF p.batch = <<>> THEN p
    ELSE LET w == WriteEvents(p.files, p.batch, failAt)
             counted == [p.pstats EXCEPT !.stored = @ + Len(p.batch)]
         IN
         IF w.ok
         THEN [p EXCEPT !.files = w.files, !.pstats = counted,
                        !.batch = <<>>, !.last_flush = t]
         ELSE [p EXCEPT !.files = w.files,
                        !.pstats = Bump(counted, "errors")]

\* a flush that clears the batch whether or not the write succeeded
FlushBatchAlwaysClear(p, t, failAt) ==
    IF p.batch = <<>> THEN p
    ELSE LET w == WriteEvents(p.files, p.batch, failAt) IN
         IF w.ok
         THEN [p EXCEPT !.files = w.files,
                        !.pstats = [p.pstats EXCEPT !.stored = @ + Len(p.batch)],
                        !.batch = <<>>, !.last_flush = t]
         ELSE [p EXCEPT !.files = w.files,
                        !.pstats = Bump(p.pstats, "errors"),
                        !.batch = <<>>, !.last_flush = t]

\* a flush that writes the batch and leaves it for the next flush to write
\* again
FlushBatchNoReset(p, t, failAt) ==
    IF p.batch = <<>> THEN p
    ELSE LET w == WriteEvents(p.files, p.batch, failAt) IN
         IF w.ok
         THEN [p EXCEPT !.files = w.files,
                        !.pstats = [p.pstats EXCEPT !.stored = @ + Len(p.batch)],
                        !.last_flush = t]
         ELSE [p EXCEPT !.files = w.files,
                        !.pstats = Bump(p.pstats, "errors")]

\* EventProcessor._flush_batch at time t
FlushBatch(p, t, failAt) ==
    IF p.batch = <<>> THEN p
    ELSE LET w == WriteEvents(p.files, p.batch, failAt) IN
         IF w.ok
         THEN [p EXCEPT !.files = w.files,
                        !.pstats = [p.pstats EXCEPT !.stored = @ + Len(p.batch)],
                        !.batch = <<>>, !.last_flush = t]
         \* except Exception: the batch and last_flush stay as they are
         ELSE [p EXCEPT !.files = w.files,
                        !.pstats = Bump(p.pstats, "errors")]

\* timedelta.seconds of a non-negative difference d of two datetimes: the
\* days are a separate field of the timedelta
TimedeltaSeconds(d) == d % 86400

\* the two flush conditions of _worker after an append
FlushDue(p, t) ==
    \/ Len(p.batch) >= batch_size
    \/ TimedeltaSeconds(t - p.last_flush) >= batch_timeout_seconds

\* where write_events may fail when a step flushes events
FlushOutcomes(flushing, events) ==
    IF flushing /\ events # <<>> /\ plast.failures < MaxStorageFailures
    THEN 0..Len(PartitionKeys(events))
    ELSE {0}

\* what is observed of a step that reached its flush decision with p0 and
\* left it with p1
Observe(op, p0, p1, flushing, failAt, new) ==
    LET f == IF ~flushing \/ p0.batch = <<>> THEN "none"
             ELSE IF WriteEvents(p0.files, p0.batch, failAt).ok THEN "ok"
             ELSE "failed"
    IN [op |-> op,
        age |-> TimedeltaSeconds(now - p0.last_flush),
        elapsed |-> now - p0.last_flush,
        flush |-> f, batch_before |-> p0.batch,
        last_flush_before |-> p0.last_flush,
        d_errors |-> p1.pstats.errors - pstats.errors,
        failures |-> plast.failures + (IF f = "failed" THEN 1 ELSE 0),
        failed_batch |-> IF f = "failed" THEN p0.batch
                         ELSE IF f = "ok" THEN <<>> ELSE plast.failed_batch,
        recovered |-> IF f = "ok" THEN plast.failed_batch ELSE <<>>,
        appended |-> plast.appended \cup new,
        new |-> new,
        rejected |-> plast.rejected, rejecters |-> plast.rejecters,
        again |-> FALSE, shared |-> FALSE,
        batchers |-> IF f = "ok" THEN {} ELSE plast.batchers,
        tracking |-> plast.tracking]

\* the record of a step by worker w, with the workers' history where it is
\* tracked: who gave up on which event, who appended to the current batch
Tracked(step, w, gaveUp, appending, emptied) ==
    IF ~plast.tracking THEN step
    ELSE [step EXCEPT
            !.rejected = @ \cup gaveUp,
            !.rejecters = IF gaveUp = {} THEN @ ELSE @ \cup {w},
            !.again = appending /\ w \in plast.rejecters,
            !.shared = appending /\ plast.batchers \ {w} # {},
            !.batchers = IF ~appending THEN @
                         ELSE IF emptied THEN {} ELSE plast.batchers \cup {w}]

\* a worker that died in its loop
WorkerExits(w) == "stopped"

\* _worker after an iteration: "while self.running" is evaluated again and
\* the worker calls get() once more
NextIteration(w) == "idle"

\* _worker from the event it got to the end of the iteration:
\* _process_event with retry_count rc, the append and the flush decision
Handle(w, e, rc, op) ==
    IF ~NormalizeRaises(e)
    THEN LET ev == Enrich(Normalize(e))
             p0 == [P EXCEPT !.batch = Append(batch, ev),
                             !.pstats = Bump(Bump(Bump(pstats, "normalized"),
                                                  "enriched"), "processed")]
         IN \E failAt \in FlushOutcomes(FlushDue(p0, now), p0.batch) :
              LET p1 == IF FlushDue(p0, now) THEN FlushBatch(p0, now, failAt)
                                             ELSE p0
              IN /\ SetP(p1)
                 /\ plast' = Tracked(Observe(op, p0, p1, FlushDue(p0, now),
                                                failAt, {ev}),
                                        w, {}, TRUE, p1.batch = <<>>)
                 /\ wpc' = [wpc EXCEPT ![w] = NextIteration(w)]
                 /\ wevent' = [wevent EXCEPT ![w] = None]
                 /\ wretry' = [wretry EXCEPT ![w] = 0]
    ELSE \* except Exception in _process_event
         LET retried == Bump(pstats, "retries") IN
         IF rc + 1 <= max_retries
         THEN \* await asyncio.sleep(0.1 * retry_count)
              /\ SetP([P EXCEPT !.pstats = retried])
              /\ plast' = Observe(op, P, [P EXCEPT !.pstats = retried],
                                  FALSE, 0, {})
              /\ wpc' = [wpc EXCEPT ![w] = "backoff"]
              /\ wevent' = [wevent EXCEPT ![w] = e]
              /\ wretry' = [wretry EXCEPT ![w] = rc + 1]
         ELSE \* return None: the iteration ends without an append
              /\ SetP([P EXCEPT !.pstats = Bump(retried, "errors")])
              /\ plast' = Tracked(Observe(op, P,
                                          [P EXCEPT !.pstats = Bump(retried, "errors")],
                                          FALSE, 0, {}),
                                  w, {e}, FALSE, FALSE)
              /\ wpc' = [wpc EXCEPT ![w] = NextIteration(w)]
              /\ wevent' = [wevent EXCEPT ![w] = None]
              /\ wretry' = [wretry EXCEPT ![w] = 0]

\* a producer puts an event into the processor's queue
Produce ==
    /\ ~closed
    /\ nput < MaxEvents
    /\ \E kind \in ProcKinds,
          wok \in Outcomes(MemoryFull(memory_queue) /\ overflow_strategy = "disk") :
         LET e == [MkEvent(nput + 1, 0, kind.source_type, kind.valid)
                     EXCEPT !.ts = kind.ts]
             r == QueuePut(Q, e, wok)
         IN
         /\ SetQ(r.q)
         /\ nput' = nput + 1
         /\ disk_failures' = disk_failures + (IF wok THEN 0 ELSE 1)
    /\ UNCHANGED <<max_memory_size, overflow_strategy, closed, gpc, path, delivered>>
    /\ UNCHANGED <<svars, avars, pvars>>

\* _worker: get() has an item in the ring, at once or after waiting
WorkerGetMemory(w) ==
    /\ running
    /\ wpc[w] \in {"idle", "waiting"}
    /\ memory_queue # <<>>
    /\ \E rok \in Outcomes(RefillReads([Q EXCEPT !.mem = MemoryGetNowait(memory_queue).mem])) :
         LET r == QueueGetMemory(Q, rok) IN
         /\ SetQ(r.q)
         /\ disk_failures' = disk_failures + (IF rok THEN 0 ELSE 1)
         /\ Handle(w, r.event, 0, "event")
    /\ UNCHANGED <<max_memory_size, overflow_strategy, closed, gpc, nput, path, delivered>>
    /\ UNCHANGED <<svars, avars, running>>

\* _worker: get() finds the ring empty and suspends in wait_for
WorkerGetWait(w) ==
    /\ running
    /\ wpc[w] = "idle"
    /\ memory_queue = <<>>
    /\ wpc' = [wpc EXCEPT ![w] = "waiting"]
    /\ UNCHANGED <<svars, qvars, avars>>
    /\ UNCHANGED <<running, batch, last_flush, pstats, wevent, wretry, files, plast>>

\* _worker: the timeout of get(timeout=1.0) fires
WorkerGetTimeout(w) ==
    /\ running
    /\ wpc[w] = "waiting"
    /\ wpc' = [wpc EXCEPT ![w] = "timedout"]
    /\ UNCHANGED <<svars, qvars, avars>>
    /\ UNCHANGED <<running, batch, last_flush, pstats, wevent, wretry, files, plast>>

\* _worker: get() resumes in "except asyncio.TimeoutError" and reads the
\* durable buffer; on None the worker continues with the next iteration
WorkerGetDisk(w) ==
    /\ running
    /\ wpc[w] = "timedout"
    /\ \E rok \in Outcomes(disk_buffer # <<>>) :
         LET r == QueueGetDisk(Q, rok) IN
         /\ SetQ(r.q)
         /\ disk_failures' = disk_failures + (IF rok THEN 0 ELSE 1)
         /\ IF r.event = None
            THEN \* if event is None: continue
                 /\ plast' = Observe("empty", P, P, FALSE, 0, {})
                 /\ wpc' = [wpc EXCEPT ![w] = NextIteration(w)]
                 /\ UNCHANGED <<batch, last_flush, pstats, wevent, wretry, files>>
            ELSE Handle(w, r.event, 0, "event")
    /\ UNCHANGED <<max_memory_size, overflow_strategy, closed, gpc, nput, path, delivered>>
    /\ UNCHANGED <<svars, avars, running>>

\* _process_event: the backoff sleep is over, the next attempt runs
WorkerRetry(w) ==
    /\ running
    /\ wpc[w] = "backoff"
    /\ Handle(w, wevent[w], wretry[w], "retry")
    /\ UNCHANGED <<svars, qvars, avars, running>>

\* a stop that cancels the workers and forgets the remaining batch
StopWithoutFlush ==
    /\ running
    /\ running' = FALSE
    /\ wpc' = [w \in Consumers |-> "stopped"]
    /\ wevent' = [w \in Consumers |-> None]
    /\ wretry' = [w \in Consumers |-> 0]
    /\ plast' = Observe("stop", P, P, FALSE, 0, {})
    /\ UNCHANGED <<svars, qvars, avars, batch, last_flush, pstats, files>>

\* EventProcessor.stop: the workers are cancelled where they are suspended,
\* then the remaining batch is flushed
Stop ==
    /\ running
    /\ running' = FALSE
    /\ wpc' = [w \in Consumers |-> "stopped"]
    /\ wevent' = [w \in Consumers |-> None]
    /\ wretry' = [w \in Consumers |-> 0]
    /\ \E failAt \in FlushOutcomes(TRUE, batch) :
         LET p1 == FlushBatch(P, now, failAt) IN
         /\ SetP(p1)
         /\ plast' = Observe("stop", P, p1, TRUE, failAt, {})
    /\ UNCHANGED <<svars, qvars, avars>>

\* main: start() has returned from stop(); "finally: event_queue.close()"
Close ==
    /\ ~running
    /\ ~closed
    /\ closed' = TRUE
    /\ UNCHANGED <<max_memory_size, overflow_strategy, memory_queue, disk_buffer,
                   qstats, gpc, nput, path, delivered, disk_failures>>
    /\ UNCHANGED <<svars, avars, pvars>>

\* time passes
ProcTick ==
    /\ now < MaxProcClock
    /\ now' = now + 1
    /\ UNCHANGED <<svars, qvars, event_queue_set, metrics, rate_limit_store, nreq, last, pvars>>

\* the state after EventProcessor.start() over an empty queue
ProcReady ==
    /\ component = "processor"
    /\ ApiIdle
    /\ StoreIdle
    /\ max_memory_size = ProcRing
    /\ overflow_strategy = "disk"
    /\ closed = FALSE
    /\ memory_queue = <<>>
    /\ disk_buffer = <<>>
    /\ qstats = ZeroStats
    /\ gpc = [c \in Consumers |-> "idle"]
    /\ nput = 0
    /\ path = <<>>
    /\ delivered = <<>>
    /\ disk_failures = 0
    /\ running = TRUE
    /\ batch = <<>>
    /\ last_flush = 0
    /\ pstats = ZeroPStats
    /\ wpc = [c \in Consumers |-> "idle"]
    /\ wevent = [c \in Consumers |-> None]
    /\ wretry = [c \in Consumers |-> 0]
    /\ files = [p \in Partitions |-> <<>>]

ProcInit == ProcReady /\ plast = NoStep

ProcNext ==
    \/ Produce
    \/ \E w \in Consumers : WorkerGetMemory(w)
    \/ \E w \in Consumers : WorkerGetWait(w)
    \/ \E w \in Consumers : WorkerGetTimeout(w)
    \/ \E w \in Consumers : WorkerGetDisk(w)
    \/ \E w \in Consumers : WorkerRetry(w)
    \/ Stop
    \/ Close
    \/ ProcTick

SpecProc == ProcInit /\ [][ProcNext]_vars

\* the processor with the history of its workers tracked: which worker gave
\* up on which event, which workers appended to the current batch
WorkInit == ProcReady /\ plast = [NoStep EXCEPT !.tracking = TRUE]

\* the flush timeout passes
WorkTick ==
    /\ now < batch_timeout_seconds
    /\ now' = now + batch_timeout_seconds
    /\ UNCHANGED <<svars, qvars, event_queue_set, metrics, rate_limit_store, nreq, last, pvars>>

WorkNext ==
    \/ Produce
    \/ \E w \in Consumers : WorkerGetMemory(w)
    \/ \E w \in Consumers : WorkerGetWait(w)
    \/ \E w \in Consumers : WorkerGetTimeout(w)
    \/ \E w \in Consumers : WorkerGetDisk(w)
    \/ \E w \in Consumers : WorkerRetry(w)
    \/ Stop
    \/ Close
    \/ WorkTick

SpecWork == WorkInit /\ [][WorkNext]_vars

\* a day passes
DayTick ==
    /\ now < 86400
    /\ now' = now + 86400
    /\ UNCHANGED <<svars, qvars, event_queue_set, metrics, rate_limit_store, nreq, last, pvars>>

\* the tracked processor over more than a day
LongNext ==
    \/ Produce
    \/ \E w \in Consumers : WorkerGetMemory(w)
    \/ \E w \in Consumers : WorkerGetWait(w)
    \/ \E w \in Consumers : WorkerGetTimeout(w)
    \/ \E w \in Consumers : WorkerGetDisk(w)
    \/ \E w \in Consumers : WorkerRetry(w)
    \/ Stop
    \/ Close
    \/ WorkTick
    \/ DayTick

SpecLong == WorkInit /\ [][LongNext]_vars

(***************************************************************************)
(* The processes that keep counters, each with reset_stats of its queue     *)
(***************************************************************************)
\* HybridQueue.reset_stats
ResetStats ==
    /\ qstats # ZeroStats
    /\ qstats' = ZeroStats
    /\ UNCHANGED <<max_memory_size, overflow_strategy, memory_queue, disk_buffer,
                   gpc, closed, nput, path, delivered, disk_failures>>
    /\ UNCHANGED <<svars, avars, pvars>>

\* one of the processes that keep counters: a queue with its producers and
\* consumers, the ingestion API over its queue, the processor over its queue
StatsInit ==
    \/ QueueInit
    \/ ApiInit /\ event_queue_set
    \/ ProcInit

StatsNext ==
    \/ component = "queue" /\ Put
    \/ component = "queue" /\ \E c \in Consumers : GetMemory(c)
    \/ component = "queue" /\ \E c \in Consumers : GetWait(c)
    \/ component = "queue" /\ \E c \in Consumers : GetTimeout(c)
    \/ component = "queue" /\ \E c \in Consumers : GetDisk(c)
    \/ component = "api" /\ ingest_azure_ad
    \/ component = "api" /\ ingest_cloudtrail
    \/ component = "api" /\ ingest_api_gateway
    \/ component = "api" /\ ingest_batch
    \/ component = "api" /\ Tick
    \/ component = "processor" /\ Produce
    \/ component = "processor" /\ \E w \in Consumers : WorkerGetMemory(w)
    \/ component = "processor" /\ \E w \in Consumers : WorkerGetWait(w)
    \/ component = "processor" /\ \E w \in Consumers : WorkerGetTimeout(w)
    \/ component = "processor" /\ \E w \in Consumers : WorkerGetDisk(w)
    \/ component = "processor" /\ \E w \in Consumers : WorkerRetry(w)
    \/ component = "processor" /\ Stop
    \/ component = "processor" /\ Close
    \/ component = "processor" /\ WorkTick
    \/ ResetStats

SpecStats == StatsInit /\ [][StatsNext]_vars

(***************************************************************************)
(* EventEnricher                                                           *)
(***************************************************************************)
entity_cache_ttl == 3600

MaxPersisted == 1

\* the networks the mock GeoIP table knows ("8.8.8.")
KnownNets == {1}

\* the location of a network; net 0 is the "Unknown" marker
GeoLocation(net) == [kind |-> "geo", net |-> net, host |-> 0]

\* geoip_lookup: the first prefix the address starts with, else the Unknown
\* marker; None when the lookup raises
geoip_lookup(ip, raises) ==
    IF raises THEN Absent
    ELSE IF ip.kind = "v4" /\ ip.net \in KnownNets THEN GeoLocation(ip.net)
    ELSE GeoLocation(0)

\* _fetch_entity_metadata: the mock resolver, a function of the entity id
FetchEntityMetadata(entity_id) == [kind |-> "metadata", net |-> 0, host |-> 0]

\* a lookup that returns the cache entry, cached_at included, on a hit
GetEntityMetadataEntry(cache, entity_id, t, raises) ==
    IF raises THEN [cache |-> cache, metadata |-> Absent, fetched |-> FALSE]
    ELSE IF /\ cache[entity_id].cached
            /\ TimedeltaSeconds(t - cache[entity_id].cached_at) < entity_cache_ttl
    THEN [cache |-> cache,
          metadata |-> [kind |-> "entry", net |-> 0,
                        host |-> cache[entity_id].cached_at],
          fetched |-> FALSE]
    ELSE [cache |-> [cache EXCEPT ![entity_id] =
                       [cached |-> TRUE,
                        metadata |-> FetchEntityMetadata(entity_id),
                        cached_at |-> t]],
          metadata |-> FetchEntityMetadata(entity_id), fetched |-> TRUE]

\* get_entity_metadata at time t: the cached metadata while the entry's
\* timedelta.seconds is below the TTL, else the resolver's, cached with the
\* time; None, with the cache as it was, when the lookup raises
get_entity_metadata(cache, entity_id, t, raises) ==
    IF raises THEN [cache |-> cache, metadata |-> Absent, fetched |-> FALSE]
    ELSE IF /\ cache[entity_id].cached
            /\ TimedeltaSeconds(t - cache[entity_id].cached_at) < entity_cache_ttl
    THEN [cache |-> cache, metadata |-> cache[entity_id].metadata,
          fetched |-> FALSE]
    ELSE [cache |-> [cache EXCEPT ![entity_id] =
                       [cached |-> TRUE,
                        metadata |-> FetchEntityMetadata(entity_id),
                        cached_at |-> t]],
          metadata |-> FetchEntityMetadata(entity_id), fetched |-> TRUE]

\* parse_user_agent: the parsed device
parse_user_agent == [kind |-> "parsed", net |-> 0, host |-> 0]

\* classify_resource_sensitivity: the level of the resource
classify_resource_sensitivity == [kind |-> "classified", net |-> 0, host |-> 0]

\* UnifiedEvent.anonymize_ip: a.b.c.XXX for four dot-separated parts
anonymize_ip(ip) == IF ip.kind = "v4" THEN Masked(ip.net) ELSE Absent

\* _anonymize_pii: source_ip_anonymized is set from source_ip
anonymize_pii(ev) ==
    IF ev.source_ip.kind = "v4"
    THEN [ev EXCEPT !.source_ip_anonymized = anonymize_ip(ev.source_ip)]
    ELSE ev

\* enrich(ev) at time t, where the aspects in f fail when they are attempted:
\* the result, the cache afterwards and the aspects that did fail.  A failed
\* geo or entity lookup returns None inside its own try; an exception of the
\* device, sensitivity or anonymization step reaches the one "except" of
\* enrich, which returns normalized_event (whose resource dict the shallow
\* copy shares, so a sensitivity level already set stays).
EnrichEvent(ev, cache, t, f) ==
    LET tryGeo == ev.source_ip.kind # "none" /\ ev.location.kind = "none"
        loc == geoip_lookup(ev.source_ip, "geo" \in f)
        e1 == IF tryGeo /\ loc.kind # "none" THEN [ev EXCEPT !.location = loc]
              ELSE ev
        tryEntity == ev.entity_id # "none"
        r2 == IF tryEntity
              THEN get_entity_metadata(cache, ev.entity_id, t, "entity" \in f)
              ELSE [cache |-> cache, metadata |-> Absent, fetched |-> FALSE]
        e2 == IF r2.metadata.kind # "none"
              THEN [e1 EXCEPT !.entity_metadata = r2.metadata] ELSE e1
        tryDevice == e2.user_agent.kind # "none" /\ e2.device.kind = "none"
        deviceRaises == tryDevice /\ "device" \in f
        e3 == IF tryDevice THEN [e2 EXCEPT !.device = parse_user_agent] ELSE e2
        sensitivityRaises == ~deviceRaises /\ "sensitivity" \in f
        e4 == [e3 EXCEPT !.sensitivity = classify_resource_sensitivity]
        anonymizeRaises == ~deviceRaises /\ ~sensitivityRaises /\ "anonymize" \in f
        e5 == anonymize_pii(e4)
        failed == {a \in f : \/ a = "geo" /\ tryGeo
                             \/ a = "entity" /\ tryEntity
                             \/ a = "device" /\ deviceRaises
                             \/ a = "sensitivity" /\ sensitivityRaises
                             \/ a = "anonymize" /\ anonymizeRaises}
    IN [out |-> IF deviceRaises \/ sensitivityRaises THEN ev
                ELSE IF anonymizeRaises
                THEN [ev EXCEPT !.sensitivity = classify_resource_sensitivity]
                ELSE e5,
        cache |-> r2.cache,
        failed |-> failed,
        caught |-> deviceRaises \/ sensitivityRaises \/ anonymizeRaises,
        tried |-> {a \in {"geo", "entity", "device", "sensitivity", "anonymize"} :
                     \/ a = "geo" /\ tryGeo
                     \/ a = "entity" /\ tryEntity
                     \/ a = "device" /\ tryDevice
                     \/ a = "sensitivity" /\ ~deviceRaises
                     \/ a = "anonymize" /\ ~deviceRaises /\ ~sensitivityRaises},
        fetched |-> r2.fetched]

\* the normalized events handed to enrich: with or without an address, a
\* location, an entity, a user agent and a device of their own
EnrichAddresses == {Absent, V4(1, 7), V6}

EnrichInputs ==
    {[NoEvent EXCEPT !.source_ip = ip, !.location = l, !.entity_id = i,
                     !.user_agent = ua[1], !.device = ua[2]] :
       ip \in EnrichAddresses, l \in {Absent, Given},
       i \in EntityIds \cup {"none"},
       ua \in {<<Absent, Absent>>, <<Given, Absent>>, <<Given, Given>>}}

\* what fails on an event: nothing, or one of the aspects
EnrichFailures ==
    {{}} \cup {{a} : a \in {"geo", "entity", "device", "sensitivity", "anonymize"}}

\* the instants calls are made at: within the TTL, past it, and a day and
\* half a TTL later
EnrichInstants == {0, entity_cache_ttl \div 2, 2 * entity_cache_ttl,
                   86400 + entity_cache_ttl \div 2}

\* what the call is about to see in the cache
Lookup(ev, op, r, f) ==
    [op |-> op, input |-> ev, out |-> r.out,
     first |-> IF op = "again" THEN elast.out ELSE NoEvent,
     failing |-> r.failed, tried |-> r.tried,
     raised |-> "none", at |-> 0,
     had_entry |-> ev.entity_id # "none" /\ entity_cache[ev.entity_id].cached,
     age |-> IF ev.entity_id # "none" /\ entity_cache[ev.entity_id].cached
             THEN now - entity_cache[ev.entity_id].cached_at ELSE 0,
     fetched |-> r.fetched,
     stamped |-> /\ ev.entity_id # "none"
                 /\ r.cache[ev.entity_id].cached
                 /\ r.cache[ev.entity_id].cached_at = now]

\* _process_event: await self.enricher.enrich(normalized_event)
EnrichCall ==
    /\ Len(erows) < MaxPersisted
    /\ \E ev \in EnrichInputs, f \in EnrichFailures :
         LET r == EnrichEvent(ev, entity_cache, now, f) IN
         /\ r.failed = f
         /\ entity_cache' = r.cache
         /\ elast' = Lookup(ev, "enrich", r, f)
    /\ UNCHANGED <<qvars, avars, pvars, erows>>
    /\ UNCHANGED <<backend, bucket, utcnow, lc, s3_failures, nrows, slast, lrun,
                   component>>

\* enrich applied to the event the latest call returned; an aspect that
\* failed on the event fails on it again
EnrichAgain ==
    /\ elast.op = "enrich"
    /\ LET r == EnrichEvent(elast.out, entity_cache, now, elast.failing) IN
         /\ entity_cache' = r.cache
         /\ elast' = Lookup(elast.out, "again", r, elast.failing)
    /\ UNCHANGED <<qvars, avars, pvars, erows>>
    /\ UNCHANGED <<backend, bucket, utcnow, lc, s3_failures, nrows, slast, lrun,
                   component>>

\* write_events: DataFrame(events) keeps every key of the event as a column
RowOf(ev) == ev

\* _flush_batch: the enriched event is persisted
Persist ==
    /\ elast.op = "enrich"
    /\ Len(erows) < MaxPersisted
    /\ erows' = Append(erows, [of |-> elast.input.source_ip,
                                row |-> RowOf(elast.out)])
    /\ UNCHANGED <<qvars, avars, pvars, entity_cache, elast>>
    /\ UNCHANGED <<backend, bucket, utcnow, lc, s3_failures, nrows, slast, lrun,
                   component>>

\* time passes between calls
EnrichTick ==
    /\ \E t \in EnrichInstants : t > now /\ now' = t
    /\ UNCHANGED <<svars, qvars, event_queue_set, metrics, rate_limit_store, nreq, last, pvars>>

EnrichInit ==
    /\ component = "enricher"
    /\ ApiIdle
    /\ ProcIdle
    /\ max_memory_size = SmallRing
    /\ overflow_strategy = "disk"
    /\ closed = FALSE
    /\ memory_queue = <<>>
    /\ disk_buffer = <<>>
    /\ qstats = ZeroStats
    /\ gpc = [c \in Consumers |-> "idle"]
    /\ nput = 0
    /\ path = <<>>
    /\ delivered = <<>>
    /\ disk_failures = 0
    /\ backend = "local"
    /\ bucket = EmptyBucket
    /\ utcnow = 0
    /\ lc = LcIdle
    /\ s3_failures = 0
    /\ nrows = 0
    /\ slast = NoStoreOp
    /\ lrun = NoRun
    /\ EnrichIdle

EnrichNext ==
    \/ EnrichCall
    \/ EnrichAgain
    \/ Persist
    \/ EnrichTick

SpecEnrich == EnrichInit /\ [][EnrichNext]_vars

(***************************************************************************)
(* The tiered store: StorageLayer over an object store ("minio") and       *)
(* LocalStorageLayer over a file tree ("local").  The clock utcnow counts  *)
(* hours; last_modified is the hour an object was put or copied.           *)
(***************************************************************************)
\* StorageConfig.hot/warm/cold_retention_days (7, 30 and 90 in the source),
\* scaled to days the clock of the model reaches
hot_retention_days == 1
warm_retention_days == 2
cold_retention_days == 3

\* the clock stops after MaxStoreDays days
MaxStoreDays == 9

\* at most MaxS3Failures calls of the store raise
MaxS3Failures == 1

Backends == {"minio", "local"}

\* timedelta(days=d), in hours
Days(d) == d * 24

\* the rows the writer is handed, in this order: two of one partition and
\* one of another date, hour and source
StoreRows ==
    <<Enrich(Normalize([MkEvent(1, 0, "azure_ad", TRUE) EXCEPT !.ts = IsoTs(0)])),
      Enrich(Normalize([MkEvent(2, 0, "azure_ad", TRUE) EXCEPT !.ts = IsoTs(0)])),
      Enrich(Normalize([MkEvent(3, 0, "cloudtrail", TRUE) EXCEPT !.ts = IsoTs(25)]))>>

\* s3_client.put_object: the object at key is replaced
PutObject(b, key, rows, t) ==
    [b EXCEPT ![key] = [rows |-> rows, last_modified |-> t]]

\* s3_client.copy_object: the object at new_key is replaced by a copy made at t
CopyObject(b, key, new_key, t) ==
    [b EXCEPT ![new_key] = [rows |-> b[key].rows, last_modified |-> t]]

\* s3_client.delete_object
DeleteObject(b, key) == [b EXCEPT ![key] = NoObject]

\* StorageLayer._write_partition of the group of partition p at time t
WritePartition(b, events, p, tier, t) ==
    PutObject(b, StoreKey(tier, p), GroupOf(events, p), t)

\* StorageLayer.write_events: one put_object per group, in groupby order.
\* failAt = 0: every group is put; failAt = k: the k-th put raises, the
\* groups before it are stored.  With a float hour column the key of the
\* first group cannot be formatted.
StorageLayerWriteEvents(b, events, tier, t, failAt) ==
    LET keys == PartitionKeys(events)
        at == IF HourIsFloat(events) /\ keys # <<>> THEN 1 ELSE failAt
        written(p) == \E k \in DOMAIN keys :
                         keys[k] = p /\ (at = 0 \/ k < at)
    IN [bucket |-> [key \in StoreKeys |->
                      IF key[1] = tier /\ written(PartitionOfKey(key))
                      THEN WritePartition(b, events, PartitionOfKey(key), tier, t)[key]
                      ELSE b[key]],
        ok |-> at = 0]

\* LocalStorageLayer.write_events into the tree of tier: WriteEvents over
\* the files of that tier
LocalWriteEvents(b, events, tier, t, failAt) ==
    LET f == [p \in Partitions |-> b[StoreKey(tier, p)].rows]
        w == WriteEvents(f, events, failAt)
    IN [bucket |-> [key \in StoreKeys |->
                      IF key[1] = tier /\ w.files[PartitionOfKey(key)] # f[PartitionOfKey(key)]
                      THEN [rows |-> w.files[PartitionOfKey(key)], last_modified |-> t]
                      ELSE b[key]],
        ok |-> w.ok]

\* the text "*" standing where a key has its two hour digits
Star == <<"*">>

\* key starts with prefix (a prefix is compared as a text: no wildcards)
HasPrefix(key, prefix) ==
    /\ Len(prefix) <= Len(key)
    /\ \A i \in DOMAIN prefix : key[i] = prefix[i]

\* s3_client.list_objects_v2(Prefix=prefix): the Contents, in key order
ListObjects(b, prefix) ==
    LET ps == SortKeys({PartitionOfKey(k) :
                          k \in {j \in StoreKeys : Exists(b, j) /\ HasPrefix(j, prefix)}})
    IN [i \in DOMAIN ps |->
          [Key |-> StoreKey(prefix[1], ps[i]),
           LastModified |-> b[StoreKey(prefix[1], ps[i])].last_modified]]

\* the rows of the listed objects, one DataFrame after the other
RECURSIVE ReadObjects(_, _)
ReadObjects(b, contents) ==
    IF contents = <<>> THEN <<>>
    ELSE b[Head(contents).Key].rows \o ReadObjects(b, Tail(contents))

\* StorageLayer._read_prefix
ReadPrefix(b, prefix) == ReadObjects(b, ListObjects(b, prefix))

\* StorageLayer._determine_tiers at time t
DetermineTiers(start, end, t) ==
    LET hot_cutoff == t - Days(hot_retention_days)
        warm_cutoff == t - Days(warm_retention_days)
        cold_cutoff == t - Days(cold_retention_days)
        tiers == (IF end >= hot_cutoff THEN <<"hot">> ELSE <<>>)
                 \o (IF start < hot_cutoff /\ end >= warm_cutoff
                     THEN <<"warm">> ELSE <<>>)
                 \o (IF start < warm_cutoff /\ end >= cold_cutoff
                     THEN <<"cold">> ELSE <<>>)
    IN IF tiers # <<>> THEN tiers ELSE <<"hot">>

\* the prefixes read_events builds for date d
DatePrefixes(tiers, d, source) ==
    [i \in DOMAIN tiers |->
       IF source # NoSource THEN <<tiers[i], d, Star, source>>
       ELSE <<tiers[i], d>>]

\* the prefixes of the dates d .. end_date
RECURSIVE Prefixes(_, _, _, _)
Prefixes(tiers, d, end_date, source) ==
    IF d > end_date THEN <<>>
    ELSE DatePrefixes(tiers, d, source) \o Prefixes(tiers, d + 1, end_date, source)

RECURSIVE ReadPrefixes(_, _)
ReadPrefixes(b, prefixes) ==
    IF prefixes = <<>> THEN <<>>
    ELSE ReadPrefix(b, Head(prefixes)) \o ReadPrefixes(b, Tail(prefixes))

\* the rows whose timestamp lies in [start, end]
InWindow(rows, start, end) ==
    SelectSeq(rows, LAMBDA r : r.timestamp.at /\ r.timestamp.hours >= start
                                /\ r.timestamp.hours <= end)

\* StorageLayer.read_events at time t
StorageLayerReadEvents(b, start, end, source, tier, t) ==
    LET tiers == IF tier # NoTier THEN <<tier>> ELSE DetermineTiers(start, end, t)
        prefixes == Prefixes(tiers, DateOf(At(start)), DateOf(At(end)), source)
    IN [tiers |-> tiers,
        rows |-> InWindow(ReadPrefixes(b, prefixes), start, end)]

\* LocalStorageLayer.read_events: every events.parquet under the tiers
LocalReadEvents(b, start, end, source, tier) ==
    LET tiers == IF tier # NoTier THEN <<tier>> ELSE TierNames
        prefixes == [i \in DOMAIN tiers |-> <<tiers[i]>>]
        windowed == InWindow(ReadPrefixes(b, prefixes), start, end)
    IN [tiers |-> tiers,
        rows |-> IF source # NoSource
                 THEN SelectSeq(windowed, LAMBDA r : r.source_system = source)
                 ELSE windowed]

\* the retention of a tier and the tier its objects move to
RetentionDays(tier) ==
    CASE tier = "hot" -> hot_retention_days
      [] tier = "warm" -> warm_retention_days
      [] tier = "cold" -> cold_retention_days
NextTierOf(tier) == IF tier = "hot" THEN "warm" ELSE "cold"

\* key.replace(from_tier + "/", to_tier + "/", 1)
NewKey(key, from_tier, to_tier) ==
    IF key[1] = from_tier THEN [key EXCEPT ![1] = to_tier] ELSE key

\* the listed objects with last_modified < cutoff_date
Due(contents, cutoff_date) ==
    SelectSeq(contents, LAMBDA o : o.LastModified < cutoff_date)

\* the listing a phase of lifecycle_management works through
PhaseTodo(b, tier, t) ==
    Due(ListObjects(b, <<tier>>), t - Days(RetentionDays(tier)))

\* the outcomes of a call of the store
S3Outcomes == IF s3_failures < MaxS3Failures THEN BOOLEAN ELSE {TRUE}

\* where write_events may fail
WriteFailures(events) ==
    IF s3_failures < MaxS3Failures THEN 0..Len(PartitionKeys(events)) ELSE {0}

\* the reads explored
ReadQueries ==
    {[start |-> w[1], end |-> w[2], source |-> f[1], tier |-> f[2]] :
        w \in {<<0, 0>>, <<0, 25>>, <<25, 25>>},
        f \in {<<NoSource, NoTier>>, <<"azure_ad", NoTier>>, <<"cloudtrail", NoTier>>,
                <<NoSource, "hot">>, <<NoSource, "warm">>, <<"azure_ad", "hot">>}}

\* the observed run after a write that turned bucket into new
AfterWrite(new) ==
    LET pending == {f \in lrun.pending : new[f.key] = bucket[f.key]} IN
    IF lrun.state = "running"
    THEN [lrun EXCEPT !.clean = FALSE, !.pending = pending]
    ELSE [NoRun EXCEPT !.failed = lrun.failed, !.pending = pending]

\* the observed run after a day has passed
AfterTick == [NoRun EXCEPT !.failed = lrun.failed, !.pending = lrun.pending]

\* the tier lifecycle_management handles after tier
After(tier) ==
    CASE tier = "hot" -> "warm"
      [] tier = "warm" -> "cold"
      [] tier = "cold" -> "idle"

\* lifecycle_management from the call for tier on, with the cutoffs of its
\* now = t: the first of the remaining tiers whose listing has an object
\* that is old enough, or the return
RECURSIVE Advance(_, _, _)
Advance(b, tier, t) ==
    IF tier = "idle" THEN LcIdle
    ELSE IF PhaseTodo(b, tier, t) # <<>>
         THEN [phase |-> tier, now |-> t, todo |-> PhaseTodo(b, tier, t),
               copied |-> FALSE]
         ELSE Advance(b, After(tier), t)

\* lc after the loop body for the head of todo is over: the rest of the
\* listing, or what follows the loop when the listing is used up or an
\* exception left the loop (raised) and was swallowed
Continue(b, raised) ==
    IF ~raised /\ Tail(lc.todo) # <<>>
    THEN [lc EXCEPT !.todo = Tail(@), !.copied = FALSE]
    ELSE Advance(b, After(lc.phase), lc.now)

\* the observed run after a step that left lifecycle_management at l; key
\* is the object whose move failed, if one did (the object that was listed,
\* not one written over it since)
AfterStep(l, failed, isMove, key) ==
    [lrun EXCEPT !.state = IF l.phase = "idle" THEN "done" ELSE @,
                 !.failed = @ \/ failed,
                 !.pending = IF /\ failed
                                /\ isMove
                                /\ bucket[key].last_modified = Head(lc.todo).LastModified
                             THEN @ \cup {[key |-> key, rows |-> bucket[key].rows]}
                             ELSE @]

\* storage.write_events(batch, tier="hot")
StoreWrite ==
    /\ nrows < Len(StoreRows)
    /\ \E n \in 1..Min(batch_size, Len(StoreRows) - nrows) :
         LET events == SubSeq(StoreRows, nrows + 1, nrows + n) IN
         \E failAt \in WriteFailures(events) :
           LET w == IF backend = "minio"
                    THEN StorageLayerWriteEvents(bucket, events, "hot", utcnow, failAt)
                    ELSE LocalWriteEvents(bucket, events, "hot", utcnow, failAt)
           IN /\ bucket' = w.bucket
              /\ nrows' = IF w.ok THEN nrows + n ELSE nrows
              /\ s3_failures' = s3_failures + (IF w.ok THEN 0 ELSE 1)
              /\ slast' = [NoStoreOp EXCEPT !.op = "write", !.ok = w.ok,
                                            !.before = bucket, !.events = events,
                                            !.at = utcnow]
              /\ lrun' = AfterWrite(w.bucket)
    /\ UNCHANGED <<backend, utcnow, lc>>
    /\ UNCHANGED <<qvars, avars, pvars, component, evars>>

\* storage.read_events(start, end, source_system, tier)
StoreRead ==
    /\ \E q \in ReadQueries :
         LET r == IF backend = "minio"
                  THEN StorageLayerReadEvents(bucket, q.start, q.end, q.source,
                                              q.tier, utcnow)
                  ELSE LocalReadEvents(bucket, q.start, q.end, q.source, q.tier)
         IN slast' = [NoStoreOp EXCEPT !.op = "read", !.start = q.start,
                                       !.end = q.end, !.source = q.source,
                                       !.tier = q.tier, !.at = utcnow,
                                       !.tiers = r.tiers, !.rows = r.rows]
    /\ UNCHANGED <<backend, bucket, utcnow, lc, s3_failures, nrows, lrun>>
    /\ UNCHANGED <<qvars, avars, pvars, component, evars>>

\* lifecycle_management up to its first copy_object or delete_object, or to
\* its return when no listing has an object that is old enough
LifecycleStart ==
    /\ backend = "minio"
    /\ lc.phase = "idle"
    /\ lc' = Advance(bucket, "hot", utcnow)
    /\ lrun' = [state |-> IF Advance(bucket, "hot", utcnow).phase = "idle"
                          THEN "done" ELSE "running",
                at |-> utcnow, before |-> bucket,
                failed |-> FALSE, clean |-> TRUE,
                rerun |-> lrun.state = "done" /\ ~lrun.failed /\ lrun.clean,
                pending |-> IF lrun.failed THEN lrun.pending ELSE {}]
    /\ slast' = [NoStoreOp EXCEPT !.op = "list", !.at = utcnow]
    /\ UNCHANGED <<backend, bucket, utcnow, s3_failures, nrows>>
    /\ UNCHANGED <<qvars, avars, pvars, component, evars>>

\* _move_tier: copy_object of the listed object at the head of todo; an
\* exception leaves the loop and is swallowed
MoveCopy ==
    /\ lc.phase \in {"hot", "warm"}
    /\ ~lc.copied
    /\ LET key == Head(lc.todo).Key
           new_key == NewKey(key, lc.phase, NextTierOf(lc.phase))
       IN \E ok \in S3Outcomes :
            /\ IF ok /\ Exists(bucket, key)
               THEN /\ bucket' = CopyObject(bucket, key, new_key, utcnow)
                    /\ lc' = [lc EXCEPT !.copied = TRUE]
                    /\ lrun' = lrun
                    /\ s3_failures' = s3_failures
               ELSE /\ bucket' = bucket
                    /\ lc' = Continue(bucket, TRUE)
                    /\ lrun' = AfterStep(Continue(bucket, TRUE), TRUE, TRUE, key)
                    /\ s3_failures' = s3_failures + 1
            /\ slast' = [NoStoreOp EXCEPT !.op = "copy",
                                          !.ok = ok /\ Exists(bucket, key),
                                          !.key = key, !.before = bucket,
                                          !.at = utcnow]
    /\ UNCHANGED <<backend, utcnow, nrows>>
    /\ UNCHANGED <<qvars, avars, pvars, component, evars>>

\* _move_tier: delete_object of the object just copied, then the rest of
\* the listing
MoveDelete ==
    /\ lc.phase \in {"hot", "warm"}
    /\ lc.copied
    /\ LET key == Head(lc.todo).Key IN
       \E ok \in S3Outcomes :
         LET b == IF ok THEN DeleteObject(bucket, key) ELSE bucket IN
            /\ bucket' = b
            /\ lc' = Continue(b, ~ok)
            /\ lrun' = AfterStep(Continue(b, ~ok), ~ok, TRUE, key)
            /\ s3_failures' = s3_failures + (IF ok THEN 0 ELSE 1)
            /\ slast' = [NoStoreOp EXCEPT !.op = "delete", !.ok = ok, !.key = key,
                                          !.before = bucket, !.at = utcnow]
    /\ UNCHANGED <<backend, utcnow, nrows>>
    /\ UNCHANGED <<qvars, avars, pvars, component, evars>>

\* _delete_old_data: delete_object of the listed object at the head of todo
DeleteOld ==
    /\ lc.phase = "cold"
    /\ LET key == Head(lc.todo).Key IN
       \E ok \in S3Outcomes :
         LET b == IF ok THEN DeleteObject(bucket, key) ELSE bucket IN
            /\ bucket' = b
            /\ lc' = Continue(b, ~ok)
            /\ lrun' = AfterStep(Continue(b, ~ok), ~ok, FALSE, key)
            /\ s3_failures' = s3_failures + (IF ok THEN 0 ELSE 1)
            /\ slast' = [NoStoreOp EXCEPT !.op = "expire", !.ok = ok, !.key = key,
                                          !.before = bucket, !.at = utcnow]
    /\ UNCHANGED <<backend, utcnow, nrows>>
    /\ UNCHANGED <<qvars, avars, pvars, component, evars>>

\* a day passes between two runs of lifecycle_management
StoreTick ==
    /\ lc.phase = "idle"
    /\ utcnow < Days(MaxStoreDays)
    /\ utcnow' = utcnow + Days(1)
    /\ slast' = NoStoreOp
    /\ lrun' = AfterTick
    /\ UNCHANGED <<backend, bucket, lc, s3_failures, nrows>>
    /\ UNCHANGED <<qvars, avars, pvars, component, evars>>

\* the state after the storage layer of either backend was constructed over
\* an empty bucket or directory
StoreReady ==
    /\ EnrichIdle
    /\ component = "store"
    /\ ApiIdle
    /\ ProcIdle
    /\ max_memory_size = SmallRing
    /\ overflow_strategy = "disk"
    /\ closed = FALSE
    /\ memory_queue = <<>>
    /\ disk_buffer = <<>>
    /\ qstats = ZeroStats
    /\ gpc = [c \in Consumers |-> "idle"]
    /\ nput = 0
    /\ path = <<>>
    /\ delivered = <<>>
    /\ disk_failures = 0
    /\ backend \in Backends
    /\ bucket = EmptyBucket
    /\ utcnow = 0
    /\ lc = LcIdle
    /\ nrows = 0
    /\ slast = NoStoreOp
    /\ lrun = NoRun

StoreInit ==
    /\ StoreReady
    /\ s3_failures = 0

StoreNext ==
    \/ StoreWrite
    \/ LifecycleStart
    \/ MoveCopy
    \/ MoveDelete
    \/ DeleteOld
    \/ StoreTick

SpecStore == StoreInit /\ [][StoreNext]_vars

\* the clock of the runs in which the store is read stops after MaxReadDays
\* days: no object is old enough to leave warm/ before that
MaxReadDays == 3

ReadTick ==
    /\ utcnow < Days(MaxReadDays)
    /\ StoreTick

\* the store is written, tiered and read; no call of the store raises
ReadInit ==
    /\ StoreReady
    /\ s3_failures = MaxS3Failures

ReadNext ==
    \/ StoreWrite
    \/ StoreRead
    \/ LifecycleStart
    \/ MoveCopy
    \/ MoveDelete
    \/ ReadTick

SpecRead == ReadInit /\ [][ReadNext]_vars

(***************************************************************************)
(* Observations used by the queue properties.                              *)
(***************************************************************************)
\* the event that put number r enqueued
PutEvent(r) == MkEvent(r, 0, "azure_ad", TRUE)

DiskEvents == [i \in DOMAIN disk_buffer |-> JsonLoads(disk_buffer[i])]

Count(seq, e) == Cardinality({i \in DOMAIN seq : seq[i] = e})

\* how many copies of e the queue holds or has handed out
Copies(e) == Count(memory_queue, e) + Count(DiskEvents, e) + Count(delivered, e)

Drained == memory_queue = <<>> /\ disk_buffer = <<>>

\* the puts that took a given path, in put order
PutsVia(p) == SelectSeq([r \in 1..nput |-> r], LAMBDA r : path[r] = p)

\* the delivered events that took a given path, in delivery order
DeliveredVia(p) == SelectSeq(delivered, LAMBDA e : path[e.ingestion_id] = p)

IsPrefixOfPuts(evs, reqs) ==
    /\ Len(evs) <= Len(reqs)
    /\ \A i \in DOMAIN evs : evs[i] = PutEvent(reqs[i])

(***************************************************************************)
(* C1: with overflow_strategy = disk and no durable-buffer failure every   *)
(* accepted item is held or delivered exactly once at any time, so once    *)
(* the queue is drained it has been returned exactly once; nothing is      *)
(* dropped and the dropped counter stays 0.                                *)
(***************************************************************************)
C1_ExactlyOnce ==
    (overflow_strategy = "disk" /\ disk_failures = 0) =>
        /\ qstats.dropped = 0
        /\ \A r \in 1..nput :
              /\ path[r] # "dropped"
              /\ Copies(PutEvent(r)) = 1
              /\ Drained => Count(delivered, PutEvent(r)) = 1
        /\ \A i \in DOMAIN delivered : delivered[i].ingestion_id \in 1..nput
        /\ Drained => Len(delivered) = nput

C1_Witness ==
    /\ overflow_strategy = "disk" /\ disk_failures = 0
    /\ max_memory_size = LargeRing
    /\ qstats.overflowed >= 2
    /\ qstats.disk_reads > 0
    /\ Drained
    /\ Len(delivered) = nput

(***************************************************************************)
(* C9: the items that went into the in-memory ring are returned by get in  *)
(* the order in which they were put.                                       *)
(***************************************************************************)
C9_MemoryFifo == IsPrefixOfPuts(DeliveredVia("memory"), PutsVia("memory"))

C9_Witness ==
    /\ Len(DeliveredVia("memory")) >= 3
    /\ \E i, j \in DOMAIN delivered :
          /\ i < j
          /\ path[delivered[i].ingestion_id] = "disk"
          /\ path[delivered[j].ingestion_id] = "memory"

(***************************************************************************)
(* C10: the items that overflowed to the durable buffer are returned by    *)
(* get in the order in which they overflowed.                              *)
(***************************************************************************)
C10_DiskFifo == IsPrefixOfPuts(DeliveredVia("disk"), PutsVia("disk"))

\* ---------------------------------------------------------------------
\* Ingest endpoints
\* ---------------------------------------------------------------------

\* the last request went to one of the single-record endpoints
SingleRequest == last.endpoint \in Sources
\* the last request went to /ingest/batch
BatchRequest == last.endpoint = "batch"
\* every event the queue holds, memory ring first
QueuedEvents == memory_queue \o DiskEvents

\* C4: a record that does not match its source-specific shape is never
\* enqueued on any ingest endpoint: the queue never holds such a record, a
\* single-record request carrying one is answered 422 and leaves the queue
\* unchanged, and a batch response counts every such record as rejected and
\* enqueues exactly the accepted ones.
C4_InvalidNeverEnqueued ==
    /\ \A i \in DOMAIN QueuedEvents : QueuedEvents[i].valid
    /\ (SingleRequest /\ ~last.valid /\ last.status \notin {401, 429}) =>
          (last.status = 422 /\ last.queued = 0)
    /\ (BatchRequest /\ last.status = 207) =>
          /\ last.accepted <= last.total - last.invalid
          /\ last.rejected >= last.invalid
          /\ last.queued = last.accepted

\* C5: when the queue drops the record of a single-record ingest, the
\* response status is 503, events_dropped_total grows by exactly 1 and no
\* error counter grows.
C5_DropIs503 ==
    (SingleRequest /\ last.put_dropped = 1) =>
        /\ last.status = 503
        /\ last.d_dropped = 1
        /\ last.d_errors = 0

C7_ExhaustedIs429 ==
    /\ (last.endpoint # "none" /\ last.exhausted) =>
          (last.status = 429 /\ last.queued = 0)
    /\ (last.endpoint # "none" /\ ~last.exhausted) => last.status # 429

\* C8: every batch ingest response satisfies accepted + rejected = total,
\* each record incrementing exactly one of the two: the accepted ones are
\* the records the queue took, the rejected ones those it dropped or whose
\* enqueue raised.
C8_BatchTotals ==
    (BatchRequest /\ last.status = 207) =>
        /\ last.accepted + last.rejected = last.total
        /\ last.accepted = last.put_ok
        /\ last.accepted = last.queued
        /\ last.rejected >= last.put_dropped

\* one batch whose first record was enqueued and whose second was dropped
C8_Witness ==
    /\ BatchRequest /\ last.status = 207
    /\ last.total = MAX_BATCH_SIZE
    /\ last.accepted = 1
    /\ last.rejected = last.total - 1
    /\ last.put_dropped = last.total - 1

\* ---------------------------------------------------------------------
\* Event processor
\* ---------------------------------------------------------------------

\* ev is a row of the events.parquet of its partition
InFiles(ev) ==
    /\ ev.timestamp.at
    /\ \E i \in DOMAIN files[PartitionOf(ev)] : files[PartitionOf(ev)][i] = ev
\* ev is waiting in the batch
InBatch(ev) == \E i \in DOMAIN batch : batch[i] = ev
\* a is an initial part of b
IsPrefix(a, b) == Len(a) <= Len(b) /\ SubSeq(b, 1, Len(a)) = a

\* the unified event carries a timestamp (the rows without one are the
\* subject of C14)
Dated(ev) == ev.timestamp.at

\* C2: when a flush fails, the batch is not cleared and last_flush is not
\* reset (one error is counted); the next flush that succeeds writes the
\* batch it found, which starts with the events of the failed flush; so
\* every event with a timestamp that was ever appended to the batch is in
\* the batch or in the files.
C2_FailedFlushKeepsBatch ==
    /\ plast.flush = "failed" =>
          /\ batch = plast.batch_before
          /\ last_flush = plast.last_flush_before
          /\ plast.d_errors = 1
    /\ plast.flush = "ok" =>
          /\ batch = <<>>
          /\ IsPrefix(plast.recovered, plast.batch_before)
          /\ \A i \in DOMAIN plast.batch_before :
                Dated(plast.batch_before[i]) => InFiles(plast.batch_before[i])
    /\ \A ev \in plast.appended : Dated(ev) => InBatch(ev) \/ InFiles(ev)

\* a worker's flush failed, the batch stayed, and the flush triggered by the
\* next event wrote the events of the failed flush together with the new one
C2_Witness ==
    /\ running
    /\ plast.op = "event"
    /\ plast.flush = "ok"
    /\ plast.recovered # <<>>
    /\ Len(plast.batch_before) > Len(plast.recovered)
    /\ \A i \in DOMAIN plast.recovered : InFiles(plast.recovered[i])

\* C3: a worker that sees an empty dequeue while the batch is non-empty and
\* batch_timeout_seconds have elapsed since the last flush flushes the
\* batch: a non-empty batch does not wait for another event or for
\* shutdown.
C3_IdleFlush ==
    (/\ plast.op = "empty"
     /\ plast.batch_before # <<>>
     /\ plast.age >= batch_timeout_seconds) => plast.flush # "none"

\* ---------------------------------------------------------------------
\* HybridQueue.put, call by call
\* ---------------------------------------------------------------------

\* the step is a put() call of the queue specification
PutStep == nput' = nput + 1
\* qstats' is qstats with the counters of ks one higher
StatsGrowBy(ks) ==
    qstats' = [k \in DOMAIN qstats |-> IF k \in ks THEN qstats[k] + 1 ELSE qstats[k]]

\* C11: a put tries the memory ring first.  With free capacity the event
\* goes to the tail of the ring (enqueued+1).  With a full ring and strategy
\* disk it is appended to the durable buffer and accepted (overflowed+1,
\* disk_writes+1) unless the write fails, which drops it; with strategy drop
\* it is dropped (dropped+1) and stored nowhere.  Exactly one of enqueued,
\* overflowed and dropped grows, by exactly 1, and the call is one step.
C11_PutOutcome ==
    [][PutStep =>
        LET e == PutEvent(nput + 1) IN
        IF Len(memory_queue) < max_memory_size
        THEN /\ memory_queue' = Append(memory_queue, e)
             /\ disk_buffer' = disk_buffer
             /\ StatsGrowBy({"enqueued"})
             /\ path' = Append(path, "memory")
        ELSE /\ memory_queue' = memory_queue
             /\ IF overflow_strategy = "disk" /\ disk_failures' = disk_failures
                THEN /\ disk_buffer' = Append(disk_buffer, JsonDumps(e))
                     /\ StatsGrowBy({"overflowed", "disk_writes"})
                     /\ path' = Append(path, "disk")
                ELSE /\ disk_buffer' = disk_buffer
                     /\ StatsGrowBy({"dropped"})
                     /\ path' = Append(path, "dropped")
    ]_vars

\* the ring is full, one event overflowed to the durable buffer and one was
\* dropped by a failed write
C11_Witness ==
    /\ overflow_strategy = "disk"
    /\ nput = max_memory_size + 2
    /\ qstats.enqueued = max_memory_size
    /\ qstats.overflowed = 1
    /\ qstats.dropped = 1
    /\ qstats.dequeued = 0

\* ---------------------------------------------------------------------
\* Shutdown of the processor
\* ---------------------------------------------------------------------

\* the workers that hold an event they dequeued
Holding == {w \in Consumers : wevent[w] # None}
\* the errors counted by _process_event (the others are failed flushes)
ProcessingErrors == pstats.errors - plast.failures

\* C12: an event a worker has dequeued is never discarded, shutdown
\* included: it is held by its worker, or was appended to the batch, or was
\* counted as a processing error.
C12_DequeuedNotDiscarded ==
    qstats.dequeued = Cardinality(Holding) + pstats.processed + ProcessingErrors

\* C13: stop() ends with every worker terminated and nothing dequeued after
\* it; it flushes the remaining batch exactly once, and only if there is
\* one; the queue is closed only after stop(); when the final flush
\* succeeds, or nothing was left to flush, the batch is empty and stored
\* equals processed.
C13_ShutdownOrder ==
    /\ pstats.processed = pstats.stored + Len(batch)
    /\ closed => ~running
    /\ ~running =>
          /\ plast.op = "stop"
          /\ \A w \in Consumers : wpc[w] = "stopped"
          /\ (plast.flush # "none") <=> (plast.batch_before # <<>>)
          /\ plast.flush # "failed" =>
                /\ batch = <<>>
                /\ pstats.stored = pstats.processed
                /\ \A ev \in plast.appended : Dated(ev) => InFiles(ev)
          /\ plast.flush = "failed" => batch = plast.batch_before

\* stop() found a batch, flushed it, and the queue was closed afterwards
C13_Witness ==
    /\ closed
    /\ plast.op = "stop"
    /\ plast.flush = "ok"
    /\ plast.batch_before # <<>>
    /\ pstats.stored = pstats.processed
    /\ pstats.stored >= 1

\* C14: an event whose timestamp cannot be parsed is rejected by normalize:
\* no unified event without a timestamp is appended to the batch, and none
\* is in a batch handed to write_events.
C14_UnparseableRejected ==
    /\ \A i \in DOMAIN batch : Dated(batch[i])
    /\ \A ev \in plast.appended : Dated(ev)
    /\ plast.flush # "none" =>
          \A i \in DOMAIN plast.batch_before : Dated(plast.batch_before[i])

(***************************************************************************)
(* Observations used by the storage properties.                            *)
(***************************************************************************)
\* the key a move takes the object at key to
MovedKey(key) == NewKey(key, key[1], NextTierOf(key[1]))

\* object o of tier is older than the retention of the tier at time t
Expired(o, tier, t) == o.last_modified < t - Days(RetentionDays(tier))

\* the elements of a sequence
Range(seq) == {seq[i] : i \in DOMAIN seq}

\* C15: a write to a partition whose file exists merges: after a write that
\* returned, the file of every partition of the batch holds the rows it
\* held before followed by the rows of the batch.
C15_WriteMerges ==
    (slast.op = "write" /\ slast.ok) =>
        \A p \in Partitions :
            GroupOf(slast.events, p) # <<>> =>
                bucket[StoreKey("hot", p)].rows =
                    slast.before[StoreKey("hot", p)].rows \o GroupOf(slast.events, p)

\* C16: every row of the file at <tier>/date=D/hour=HH/source=S has a
\* timestamp of date D and hour HH (two digits in the path) and has
\* source_system S, whatever writes and tier moves came before.
C16_RowsMatchPath ==
    \A key \in StoreKeys :
        \A i \in DOMAIN bucket[key].rows :
            LET row == bucket[key].rows[i] IN
            /\ row.timestamp.at
            /\ DateOf(row.timestamp) = key[2]
            /\ Pad2(HourOf(row.timestamp)) = key[3]
            /\ row.source_system = key[4]

\* a batch of two partitions was written after an earlier batch, one file
\* holds the rows of both writes, and a file was moved to warm/
C16_Witness ==
    /\ slast.op = "write"
    /\ slast.ok
    /\ Len(PartitionKeys(slast.events)) = 2
    /\ \E key \in StoreKeys : key[1] = "warm" /\ Exists(bucket, key)
    /\ \E key \in StoreKeys : key[3] = Pad2(1) /\ Exists(bucket, key)

\* C17: after a run of lifecycle_management in which no call failed and
\* during which nothing was written, every object that was older than the
\* retention of its tier is no longer in that tier and (for hot and warm) is
\* in the next tier under the same subpath, every other object still has
\* its rows, and a run that follows at once changes nothing.
C17_LifecycleMoves ==
    (lrun.state = "done" /\ ~lrun.failed /\ lrun.clean) =>
        /\ \A key \in StoreKeys :
              Exists(lrun.before, key) =>
                 IF Expired(lrun.before[key], key[1], lrun.at)
                 THEN /\ bucket[key].rows # lrun.before[key].rows
                      /\ key[1] # "cold" =>
                            bucket[MovedKey(key)].rows = lrun.before[key].rows
                 ELSE bucket[key].rows = lrun.before[key].rows
        /\ lrun.rerun => bucket = lrun.before

\* C18: a move copies, then deletes: a failed copy or delete leaves the
\* source object as it was, the object is in the source until it is in the
\* destination, and the next run in which no call fails has moved every
\* object whose move had failed.
C18_MoveRetried ==
    /\ (slast.op \in {"copy", "delete"} /\ ~slast.ok) =>
          /\ Exists(bucket, slast.key)
          /\ bucket[slast.key] = slast.before[slast.key]
    /\ (slast.op = "delete" /\ slast.ok) =>
          bucket[MovedKey(slast.key)].rows = slast.before[slast.key].rows
    /\ lc.phase \in {"hot", "warm"} => Exists(bucket, Head(lc.todo).Key)
    /\ (lrun.state = "done" /\ ~lrun.failed) =>
          \A f \in lrun.pending :
              /\ bucket[MovedKey(f.key)].rows = f.rows
              /\ bucket[f.key].rows # f.rows

\* C19: a read returns exactly the stored rows of the tiers the policy (or
\* the override) selects whose timestamp is in [start, end] and whose source
\* is the one asked for, each of them once.
C19_ReadExact ==
    slast.op = "read" =>
        LET tiers == IF slast.tier # NoTier THEN {slast.tier}
                     ELSE Range(DetermineTiers(slast.start, slast.end, slast.at))
            stored == UNION {Range(bucket[key].rows) :
                               key \in {k \in StoreKeys : k[1] \in tiers}}
            wanted == {row \in stored :
                          /\ row.timestamp.hours >= slast.start
                          /\ row.timestamp.hours <= slast.end
                          /\ slast.source # NoSource => row.source_system = slast.source}
        IN /\ Range(slast.rows) = wanted
           /\ \A i, j \in DOMAIN slast.rows : i # j => slast.rows[i] # slast.rows[j]

\* C20: without an override a read of [start, end] at time now scans hot iff
\* end >= now - hot retention, warm iff start < now - hot retention and
\* end >= now - warm retention, cold iff start < now - warm retention and
\* end >= now - cold retention, and hot alone if none of these holds, on
\* either backend.
C20_TierPolicy ==
    (slast.op = "read" /\ slast.tier = NoTier) =>
        LET hot == slast.end >= slast.at - Days(hot_retention_days)
            warm == /\ slast.start < slast.at - Days(hot_retention_days)
                    /\ slast.end >= slast.at - Days(warm_retention_days)
            cold == /\ slast.start < slast.at - Days(warm_retention_days)
                    /\ slast.end >= slast.at - Days(cold_retention_days)
        IN /\ slast.tiers # <<>>
           /\ "hot" \in Range(slast.tiers) <=> hot \/ (~warm /\ ~cold)
           /\ "warm" \in Range(slast.tiers) <=> warm
           /\ "cold" \in Range(slast.tiers) <=> cold
\* the raw ids of a set of normalized events
RawIds(events) == {ev.raw_event_id : ev \in events}

\* C21: a single event's error never ends the pipeline. While the processor
\* runs no worker has left its loop; an event that failed normalize/enrich
\* on every attempt is counted once in errors and is in neither the batch,
\* the stored files nor the set of events ever appended.
C21_WorkerSurvivesError ==
    /\ running => \A w \in Consumers : wpc[w] # "stopped"
    /\ ProcessingErrors = Cardinality(plast.rejected)
    /\ \A e \in plast.rejected :
         /\ e.ingestion_id \notin RawIds(Range(batch))
         /\ e.ingestion_id \notin RawIds(plast.appended)
         /\ \A p \in Partitions : e.ingestion_id \notin RawIds(Range(files[p]))

\* a worker that gave up on an event has since appended a later one
C21_Witness ==
    /\ running
    /\ plast.again
    /\ plast.new # {}
    /\ \A e \in plast.rejected :
         \A ev \in plast.new : ev.raw_event_id > e.ingestion_id
\* how often the event with raw id i is in the stored files
TimesStored(i) ==
    Cardinality({<<p, k>> \in Partitions \X (1..(2 * MaxEvents)) :
                   k \in DOMAIN files[p] /\ files[p][k].raw_event_id = i})

\* every dated event ever appended is still in the batch or in a file
NoneDiscarded == \A ev \in plast.appended : Dated(ev) => InBatch(ev) \/ InFiles(ev)

Grown(old, new) == \A k \in DOMAIN old : new[k] >= old[k]

\* C23: every metrics counter is monotonic: no step lowers a queue counter
\* unless it is reset_stats, and no step at all lowers an API metric, a
\* per-source count or a processor counter.
C23_CountersMonotonic ==
    [][/\ ResetStats \/ Grown(qstats, qstats')
       /\ metrics'.events_ingested_total >= metrics.events_ingested_total
       /\ metrics'.events_dropped_total >= metrics.events_dropped_total
       /\ metrics'.errors_total >= metrics.errors_total
       /\ Grown(metrics.events_by_source, metrics'.events_by_source)
       /\ Grown(pstats, pstats')]_vars

\* counters of all three components have grown, and the queue counters went
\* on counting after a reset (dequeued items that were enqueued before it)
C23_Witness ==
    /\ pstats.processed > 0
    /\ pstats.stored > 0
    /\ qstats.dequeued > 0
    /\ qstats.enqueued = 0
\* the aspect applies to the event handed to enrich
Applies(a, ev) ==
    CASE a = "geo" -> ev.source_ip.kind # "none" /\ ev.location.kind = "none"
      [] a = "entity" -> ev.entity_id # "none"
      [] a = "device" -> ev.user_agent.kind # "none" /\ ev.device.kind = "none"
      [] a = "sensitivity" -> TRUE
      [] a = "anonymize" -> ev.source_ip.kind = "v4"

\* the result of the aspect is in the event enrich returned
Applied(a, ev, out) ==
    CASE a = "geo" -> out.location.kind = "geo"
      [] a = "entity" -> out.entity_metadata = FetchEntityMetadata(ev.entity_id)
      [] a = "device" -> out.device = parse_user_agent
      [] a = "sensitivity" -> out.sensitivity = classify_resource_sensitivity
      [] a = "anonymize" -> out.source_ip_anonymized = Masked(ev.source_ip.net)

AspectSet == {"geo", "entity", "device", "sensitivity", "anonymize"}

\* C24: the aspects of enrichment are independently best-effort: enrich never
\* raises, and when one aspect fails on an event every other aspect that
\* applies to the event is still in the result, the earlier ones and the
\* later ones (anonymization in particular).
C24_AspectsIndependent ==
    elast.op = "enrich" =>
      /\ elast.raised = "none"
      /\ \A a \in AspectSet :
           Applies(a, elast.input) /\ a \notin elast.failing
             => Applied(a, elast.input, elast.out)

\* C25: the entity cache never serves an expired entry: a lookup of an entry
\* older than entity_cache_ttl seconds, whatever its age, invokes the resolver
\* and stamps the entry with the time of the lookup; a lookup of a younger
\* entry invokes no resolver.
C25_NoExpiredEntry ==
    elast.op # "none" /\ elast.had_entry /\ "entity" \notin elast.failing =>
      /\ elast.age > entity_cache_ttl => elast.fetched /\ elast.stamped
      /\ elast.age < entity_cache_ttl => ~elast.fetched

\* the fields enrichment sets
EnrichedFields(ev) ==
    <<ev.location, ev.entity_metadata, ev.device, ev.sensitivity,
      ev.source_ip_anonymized>>

C27_RawOctetNotPersisted ==
    \A i \in DOMAIN erows :
      erows[i].of.kind = "v4" =>
        /\ erows[i].row.source_ip_anonymized = Masked(erows[i].of.net)
        /\ erows[i].row.source_ip # erows[i].of
FailedDiskGet ==
    /\ \E c \in Consumers : gpc[c] = "timedout" /\ gpc'[c] = "idle"
    /\ disk_failures' = disk_failures + 1

\* C29: a dequeue whose read of the durable buffer fails increments the
\* errors counter, returns empty, removes no item, and leaves the item where
\* a later dequeue can return it.
C29_DequeueErrorCounted ==
    [][FailedDiskGet =>
        /\ qstats'.errors = qstats.errors + 1
        /\ delivered' = delivered
        /\ memory_queue' = memory_queue
        /\ disk_buffer' = disk_buffer
        /\ disk_buffer # <<>>
    ]_vars

\* C30: right after a worker appends an event, a batch of batch_size events
\* or a last flush batch_timeout_seconds or longer ago, however long, makes
\* that worker flush before it dequeues again; a successful flush empties
\* the batch and sets last_flush to now, so with a working store the batch
\* never holds batch_size or more events between worker steps.
C30_FlushAfterAppend ==
    /\ plast.new # {} =>
         /\ (\/ Len(plast.batch_before) >= batch_size
             \/ plast.elapsed >= batch_timeout_seconds) => plast.flush # "none"
         /\ plast.flush = "ok" =>
              /\ batch = <<>>
              /\ last_flush = plast.last_flush_before + plast.elapsed
    /\ plast.failures = 0 => Len(batch) < batch_size

\* the retries the workers sleeping in a backoff have counted so far
RECURSIVE RetriesInFlight(_)
RetriesInFlight(ws) ==
    IF ws = {} THEN 0
    ELSE LET w == CHOOSE x \in ws : TRUE
         IN wretry[w] + RetriesInFlight(ws \ {w})

\* C31: an event that fails normalize+enrich on every attempt is tried
\* max_retries + 1 times, then discarded and counted once in errors, and the
\* retries counter has grown by one per retry performed: max_retries for
\* every event given up on, plus the retries of the events still in backoff.
C31_RetriesPerEvent ==
    running =>
      /\ ProcessingErrors = Cardinality(plast.rejected)
      /\ \A w \in Consumers : wretry[w] <= max_retries
      /\ pstats.retries = max_retries * Cardinality(plast.rejected)
                            + RetriesInFlight(Consumers)

\* a consumer's get() returns an item of the memory ring
MemoryGetStep ==
    /\ \E c \in Consumers : gpc[c] \in {"idle", "waiting"} /\ gpc'[c] = "idle"
    /\ memory_queue # <<>>
    /\ delivered' = Append(delivered, Head(memory_queue))

\* C32: after a successful in-memory dequeue with a non-empty durable buffer
\* the queue refills, whatever the capacity and the fill level of the ring:
\* the oldest min(disk_size, 10% of max_memory_size) durable items move to
\* the tail of the ring, and no item is lost on the way.
C32_RefillAfterDequeue ==
    [][MemoryGetStep /\ disk_buffer # <<>> /\ disk_failures' = disk_failures =>
        LET k == Min(DiskSize(disk_buffer), RefillChunk) IN
        /\ disk_buffer' = SubSeq(disk_buffer, k + 1, Len(disk_buffer))
        /\ memory_queue' = Tail(memory_queue) \o
                              [i \in 1..k |-> JsonLoads(disk_buffer[i])]
    ]_vars

\* C33: without clear(), reset_stats() or a durable-buffer failure the
\* counters account for the content of the queue: enqueued + overflowed -
\* dequeued is the ring size plus the buffer size, which is size(); the ring
\* never exceeds max_memory_size; disk_writes - disk_reads is the buffer size.
C33_CounterConservation ==
    disk_failures = 0 =>
      /\ qstats.enqueued + qstats.overflowed - qstats.dequeued
           = Len(memory_queue) + DiskSize(disk_buffer)
      /\ QSize(Q) = Len(memory_queue) + DiskSize(disk_buffer)
      /\ Len(memory_queue) <= max_memory_size
      /\ qstats.disk_writes - qstats.disk_reads = DiskSize(disk_buffer)

\* C34: between worker steps, whatever the workers do and whichever flushes
\* fail, processed = stored + len(batch); a flush that succeeds leaves
\* processed = stored, the final flush of stop() included.
C34_ProcessorAccounting ==
    /\ pstats.processed = pstats.stored + Len(batch)
    /\ pstats.stored <= pstats.processed
    /\ plast.flush = "failed" =>
         pstats.processed - pstats.stored = Len(plast.batch_before)
    /\ plast.flush = "ok" => pstats.processed = pstats.stored

\* a flush failed and left its batch, and the final flush of stop() stored it
C34_Witness ==
    /\ ~running
    /\ plast.op = "stop"
    /\ plast.flush = "ok"
    /\ plast.failures = 1
    /\ pstats.errors >= 1
    /\ pstats.stored = pstats.processed
    /\ pstats.stored = Len(plast.batch_before)
    /\ pstats.stored >= 1

\* C35: a lifecycle move destroys no row. When the destination tier already
\* holds an object under the key the source object moves to, the
\* destination holds the rows of both after the copy, and the delete that
\* completes the move removes only rows the destination holds.
C35_MoveKeepsRows ==
    /\ (slast.op = "copy" /\ slast.ok) =>
         LET dst == MovedKey(slast.key) IN
         /\ Range(slast.before[dst].rows) \subseteq Range(bucket[dst].rows)
         /\ Range(slast.before[slast.key].rows) \subseteq Range(bucket[dst].rows)
    /\ (slast.op = "delete" /\ slast.ok /\ slast.key[1] \in {"hot", "warm"}) =>
         Range(slast.before[slast.key].rows)
            \subseteq Range(bucket[MovedKey(slast.key)].rows)

\* C36: on the object store a read of [start, end] without a tier override
\* returns every persisted row whose timestamp lies in the window,
\* whichever tier holds its file at the time of the read.
C36_ReadComplete ==
    (/\ slast.op = "read"
     /\ backend = "minio"
     /\ slast.tier = NoTier
     /\ slast.source = NoSource) =>
        \A key \in StoreKeys :
            \A row \in Range(bucket[key].rows) :
                (/\ row.timestamp.hours >= slast.start
                 /\ row.timestamp.hours <= slast.end) => row \in Range(slast.rows)

\* the number of rows in the partition files
RowsInFiles ==
    Cardinality({<<p, k>> \in Partitions \X (1..(2 * MaxEvents)) :
                   k \in DOMAIN files[p]})

\* C37: a flush that reports success has added as many rows to the partition
\* files as the batch had events, which is what it added to stored: while no
\* flush has failed the files hold stored rows, and every event of a batch
\* flushed with success is in exactly one partition file, with or without a
\* timestamp.
C37_FlushedRowsCounted ==
    plast.failures = 0 =>
      /\ RowsInFiles = pstats.stored
      /\ plast.flush = "ok" =>
           \A i \in DOMAIN plast.batch_before :
               TimesStored(plast.batch_before[i].raw_event_id) = 1

\* C38 as stated: no processed event is persisted more than once, also when
\* a flush failed after it had written some partitions and the retained
\* batch is flushed again.
C38_PersistedOnce ==
    \A i \in 1..MaxEvents : TimesStored(i) <= 1

\* C38, amended: only the retry of a failed flush persists an event again.
\* While no flush has failed every event is in the files at most once; each
\* failed flush adds at most one more copy of an event, because the retained
\* batch is written again whole; and a flush that succeeds leaves every dated
\* event of its batch in the files.
C38_PersistedAtLeastOnce ==
    /\ \A i \in 1..MaxEvents : TimesStored(i) <= 1 + plast.failures
    /\ plast.flush = "ok" =>
         \A k \in DOMAIN plast.batch_before :
             Dated(plast.batch_before[k]) =>
                TimesStored(plast.batch_before[k].raw_event_id) >= 1

\* a flush failed after it had written a partition, and the flush that
\* followed wrote the rows of that partition again
C38_Witness ==
    /\ plast.flush = "ok"
    /\ plast.failures = 1
    /\ batch = <<>>
    /\ \E i \in 1..MaxEvents : TimesStored(i) = 2
    /\ \E i \in 1..MaxEvents : TimesStored(i) = 1

(***************************************************************************)
(* The queue under a producer that never stops.  The events that overflow  *)
(* are numbered, and a number is used again once its event has been        *)
(* returned; the events that go into the ring are all alike (number 0).    *)
(* The counters stop at StatsCap and the record of puts and deliveries is  *)
(* not kept, so that the behaviours are infinite over finitely many states.*)
(***************************************************************************)
\* the counters are followed up to this value
StatsCap == 1

Saturated(st) == [k \in DOMAIN st |-> Min(st[k], StatsCap)]

\* the event with id i is in the ring or in the durable buffer
InQueue(i) ==
    Count(memory_queue, PutEvent(i)) + Count(disk_buffer, JsonDumps(PutEvent(i))) > 0

OnDisk(i) == Count(disk_buffer, JsonDumps(PutEvent(i))) > 0

\* the numbers no queued event carries
FreeIds == {i \in 1..ExtraItems : ~InQueue(i)}

\* put() of the next event; at most ExtraItems overflowed events are in the
\* queue at a time
EndlessPut ==
    /\ MemoryFull(memory_queue) => FreeIds # {}
    /\ LET i == IF MemoryFull(memory_queue)
                THEN CHOOSE x \in FreeIds : \A y \in FreeIds : x <= y
                ELSE 0
           r == QueuePut(Q, PutEvent(i), TRUE)
       IN SetQ([r.q EXCEPT !.stats = Saturated(r.q.stats)])
    /\ UNCHANGED <<max_memory_size, overflow_strategy, closed, gpc, nput, path,
                   delivered, disk_failures>>
    /\ UNCHANGED <<svars, avars, pvars>>

\* get(): memory_queue.get() has an item, at once or after waiting
EndlessGetMemory(c) ==
    /\ gpc[c] \in {"idle", "waiting"}
    /\ memory_queue # <<>>
    /\ LET r == QueueGetMemory(Q, TRUE)
       IN SetQ([r.q EXCEPT !.stats = Saturated(r.q.stats)])
    /\ gpc' = [gpc EXCEPT ![c] = "idle"]
    /\ UNCHANGED <<max_memory_size, overflow_strategy, closed, nput, path,
                   delivered, disk_failures>>
    /\ UNCHANGED <<svars, avars, pvars>>

\* get(): the consumer resumes in "except asyncio.TimeoutError"
EndlessGetDisk(c) ==
    /\ gpc[c] = "timedout"
    /\ LET r == QueueGetDisk(Q, TRUE)
       IN SetQ([r.q EXCEPT !.stats = Saturated(r.q.stats)])
    /\ gpc' = [gpc EXCEPT ![c] = "idle"]
    /\ UNCHANGED <<max_memory_size, overflow_strategy, closed, nput, path,
                   delivered, disk_failures>>
    /\ UNCHANGED <<svars, avars, pvars>>

\* the steps of consumer c, which calls get() in a loop
ConsumerStep(c) ==
    \/ EndlessGetMemory(c)
    \/ GetWait(c)
    \/ GetTimeout(c)
    \/ EndlessGetDisk(c)

EndlessInit == QueueInit /\ overflow_strategy = "disk"

EndlessNext ==
    \/ EndlessPut
    \/ \E c \in Consumers : EndlessGetMemory(c)
    \/ \E c \in Consumers : GetWait(c)
    \/ \E c \in Consumers : GetTimeout(c)
    \/ \E c \in Consumers : EndlessGetDisk(c)

\* every consumer keeps calling get(); nothing is assumed of the producer
SpecEndless ==
    /\ EndlessInit
    /\ [][EndlessNext]_vars
    /\ \A c \in Consumers : WF_vars(ConsumerStep(c))

\* C39: while the consumers keep calling get(), every item written to the
\* durable buffer is eventually returned by a get(), whatever the producers
\* do and whatever the capacity of the ring.
C39_NoStarvation ==
    \A i \in 1..ExtraItems : OnDisk(i) ~> ~InQueue(i)

\* C40: when stop() and the closing of the queue have completed, every item
\* put() accepted is accounted for: it was persisted by a flush, or counted
\* as a processing error, or is still in the durable buffer for a later run;
\* no accepted item is left behind in the memory ring.
C40_ShutdownAccounts ==
    closed =>
      /\ qstats.enqueued + qstats.overflowed
            = pstats.stored + ProcessingErrors + DiskSize(disk_buffer)
      /\ memory_queue = <<>>
====
